---------------------------- MODULE Spec2Model ----------------------------
(***************************************************************************)
(* A model of the OJS updater: Updater.update (updater.py) driving one     *)
(* OJSInstance (ojsinstance.py) through backup, file replacement, the      *)
(* installed toggle, the database migration and, on failure, the rewind of *)
(* OJSInstance.lock.  The file system is a record of directory trees and   *)
(* archives; the database is one value; external programs (mysqldump,      *)
(* mysql, php) succeed or fail nondeterministically.                       *)
(***************************************************************************)
EXTENDS Naturals, Sequences, FiniteSets, TLC

VARIABLES
    settings,   \* the Settings mapping: debug, force, backup folders, custom_files
    refs,       \* the reference trees below ojs_version_folder, by folder
    versions,   \* Updater.versions: release key -> [folder, reference]
    journal,    \* the OJSInstance handle: version, config, backups
    fs,         \* the file system: live tree, old tree(s), archives, /tmp
    db,         \* the journal's database
    pc,         \* position inside the running operation
    op,         \* the running operation
    call,       \* arguments and locals of the running operation
    trace,      \* the external effects of the running operation, in order
    scope,      \* what the body of `with journal.lock()` raised, and where
    result,     \* how the running operation ended
    calls,      \* number of operations started so far
    cli         \* the invocations of ojs_update.main and the lock file

vars == <<settings, refs, versions, journal, fs, db, pc, op, call, trace,
          scope, result, calls, cli>>

\* Number of operations (update, backup, lock) one run of the process makes:
\* ojs_update.main makes one.
MaxCalls == 1

-----------------------------------------------------------------------------
(* Versions: packaging.version.Version, reduced to its release tuple.     *)

\* version.Version(string): the release segment of a dotted version string.
Version(release) == [release |-> release]

RECURSIVE StripZeros(_)
\* Version._key drops the trailing zeros of the release: 3.3.0.0 == 3.3.
StripZeros(s) ==
    IF s # <<>> /\ s[Len(s)] = 0
    THEN StripZeros(SubSeq(s, 1, Len(s) - 1))
    ELSE s

CmpKey(v) == StripZeros(v.release)

RECURSIVE TupleLess(_, _)
\* Python's tuple order on release keys.
TupleLess(a, b) ==
    IF a = <<>> THEN b # <<>>
    ELSE IF b = <<>> THEN FALSE
    ELSE IF a[1] # b[1] THEN a[1] < b[1]
    ELSE TupleLess(Tail(a), Tail(b))

\* Version.__ge__
VersionGE(v, w) == ~TupleLess(CmpKey(v), CmpKey(w))

\* max(self.versions) over the keys of the catalog
MaxKey(keys) == CHOOSE k \in keys : \A o \in keys : ~TupleLess(k, o)

\* The release strings a caller may pass as new_version; <<>> is None / ''.
NoVersion == <<>>
Releases == {<<2, 4, 8>>, <<3, 3, 0, 0>>, <<3, 3, 0, 1>>, <<1, 2, 3, 4>>, <<3, 3>>}

-----------------------------------------------------------------------------
(* Trees, configuration files, archives.                                   *)

NoTree == [exists |-> FALSE]
NoDir == [exists |-> FALSE]
NoEntry == [kind |-> "none"]
NoArchive == [kind |-> "none"]

Dir(files) == [exists |-> TRUE, files |-> files]

\* Paths of the custom_files allowlist, relative to the journal folder.
CustomPaths == {"theme.php", "pluginA", "pluginB"}

\* pathlib: old_journal_folder / folder drops a trailing slash.
PathOf(entry) == IF entry = "pluginA/" THEN "pluginA" ELSE entry

LiveDb(driver, host) ==
    [driver |-> driver, name |-> "ojs", host |-> host,
     username |-> "ojs", password |-> "ojspwd"]

RefDb ==
    [driver |-> "mysql", name |-> "refdb", host |-> "refhost",
     username |-> "refuser", password |-> "refpwd"]

ConfigFile(lines, database) == [exists |-> TRUE, lines |-> lines, db |-> database]
NoFile == [exists |-> FALSE]

RefFolders == {"ojs_2_4_8", "ojs_3_3_0_0", "ojs_3_3_0_1"}

RefRelease(folder) ==
    IF folder = "ojs_2_4_8" THEN <<2, 4, 8>>
    ELSE IF folder = "ojs_3_3_0_0" THEN <<3, 3, 0, 0>>
    ELSE <<3, 3, 0, 1>>

Entry(kind, origin) == [kind |-> kind, origin |-> origin]

Tree(release, public, config, custom) ==
    [exists |-> TRUE, isdir |-> TRUE, release |-> release, public |-> public,
     config |-> config, config_new |-> NoFile,
     custom |-> custom, custom_new |-> [p \in CustomPaths |-> NoEntry]]

\* A reference tree: pristine, `installed = Off`, its own database defaults.
RefTree(folder, public, custom) ==
    Tree(RefRelease(folder), public,
         ConfigFile(<<"; installed = On", "installed = Off">>, RefDb), custom)

\* The backup folders a settings file may name: two with the same last
\* component, and one other.
BackupDirs == {"/backup/www", "/backup/db", "/other/www"}

\* pathlib.Path(folder).name
BaseName(dir) == IF dir = "/backup/db" THEN "db" ELSE "www"

\* <destination>/<backup_file_name>_<timestamp><extension>
ArchivePath(dir, ext) == [dir |-> dir, ext |-> ext]
Extensions == {".tar.bz2", ".tar.gz"}

\* The formats shutil.make_archive is asked for, and the extension it
\* appends to base_name.
Formats == {"bztar", "gztar"}
ExtensionOf(file_format) == IF file_format = "bztar" THEN ".tar.bz2" ELSE ".tar.gz"
ArchivePaths == {ArchivePath(d, e) : d \in BackupDirs, e \in Extensions}

\* str.endswith('.bz2')
EndsWithBz2(path) == path.ext = ".tar.bz2"

TreeArchive(tree) == [kind |-> "tree", tree |-> tree]
DumpArchive(dump) == [kind |-> "dump", dump |-> dump]
EmptyArchive == [kind |-> "empty"]

\* commons.DUMPERS and commons.DATABASE_IMPORT
DUMPERS == {"mysql", "mysqli"}
DATABASE_IMPORT == {"mysql", "mysqli"}


-----------------------------------------------------------------------------
(* OJSInstance: configuration.                                             *)

\* The value configparser reads for the installed key from a line, "" for
\* a line that is a comment or sets no such key.
InstalledValue(line) ==
    IF line = "installed = On" THEN "On"
    ELSE IF line = "installed = Off" THEN "Off"
    ELSE IF line = "Installed=ON" THEN "ON"
    ELSE IF line = "installed = Once" THEN "Once"
    ELSE ""

\* str.lower()
Lower(value) ==
    IF value \in {"On", "ON"} THEN "on"
    ELSE IF value = "Off" THEN "off"
    ELSE IF value = "Once" THEN "once"
    ELSE value

\* host.strip('"')
StripQuotes(host) == IF host = "\"localhost\"" THEN "localhost" ELSE host

\* The option lines of a file: those configparser does not skip as comments.
OptionLines(lines) == {i \in 1..Len(lines) : InstalledValue(lines[i]) # ""}

\* OJSInstance.reload_config: the in-memory configuration read from a file.
reload_config(file) ==
    [db |-> [file.db EXCEPT !.host = StripQuotes(@)],
     installed |->
        IF OptionLines(file.lines) = {} THEN ""
        ELSE InstalledValue(file.lines[CHOOSE i \in OptionLines(file.lines) :
                                \A k \in OptionLines(file.lines) : i <= k])]

\* OJSInstance.is_installed
is_installed(config) == Lower(config.installed) = "on"

\* re.match(r'^\s*installed\s*=\s*on', line.lower()): the pattern has no
\* end anchor, so a value that only starts with "on" matches too.
MatchesOn(line) == line \in {"installed = On", "Installed=ON", "installed = Once"}

\* re.match(r'^\s*installed\s*=\s*off', line.lower())
MatchesOff(line) == line = "installed = Off"

\* The loop body of toggle_installed: the line written for a line read.
ToggleLine(line) ==
    IF MatchesOn(line) THEN "installed = Off"
    ELSE IF MatchesOff(line) THEN "installed = On"
    ELSE line

\* An operation's outcome: the error it raised ("" for none) and the state
\* it left.
Out(err, F, J, D) == [err |-> err, fs |-> F, journal |-> J, db |-> D]

\* OJSInstance.toggle_installed: rewrite the file line by line, reload.
toggle_installed(F, J, D) ==
    IF ~F.live.exists \/ ~F.live.config.exists
    THEN Out("FileNotFoundError", F, J, D)
    ELSE LET lines == F.live.config.lines
             file == [F.live.config EXCEPT
                        !.lines = [i \in 1..Len(lines) |-> ToggleLine(lines[i])]]
         IN Out("", [F EXCEPT !.live.config = file],
                [J EXCEPT !.config = reload_config(file)], D)

-----------------------------------------------------------------------------
(* OJSInstance: backup.                                                    *)

NoBackups == [k \in {} |-> ArchivePath("/backup/www", ".tar.bz2")]

\* self.backups[key] = path
Put(backups, key, path) ==
    [k \in DOMAIN backups \cup {key} |-> IF k = key THEN path ELSE backups[k]]

\* Mutant of archive_files: the destination is not looked at; the archive
\* of a missing destination is recorded all the same.
ArchiveFilesUnchecked(F, J, D, S, destination, file_format) ==
    Out("", F, [J EXCEPT !.backups =
                  Put(@, BaseName(S.ojs_backup_www),
                      ArchivePath("/backup/www", ".tar.bz2"))], D)

\* OJSInstance.archive_files(destination, file_format='bztar').
archive_files(F, J, D, S, destination, file_format) ==
    IF destination \notin F.dirs
    THEN Out("FileNotFoundError", F, J, D)
    ELSE LET path == ArchivePath(destination, ExtensionOf(file_format))
             recorded == [J EXCEPT !.backups =
                            Put(@, BaseName(S.ojs_backup_www), path)]
         IN IF S.debug
            THEN Out("", F, recorded, D)          \* make_archive(dry_run=True)
            ELSE IF ~F.live.exists
            THEN Out("FileNotFoundError",          \* tar.add fails, tar.close
                     [F EXCEPT !.archives[path] = EmptyArchive], J, D)
            ELSE Out("", [F EXCEPT !.archives[path] = TreeArchive(F.live)],
                     recorded, D)

\* Mutant of dump_database: the dump program runs before the driver is
\* looked up.
DumpDatabaseDumpsFirst(F, J, D, S, destination, dumped) ==
    IF destination \notin F.dirs
    THEN Out("FileNotFoundError", F, J, D)
    ELSE IF ~dumped
    THEN Out("OSError", F, J, D)
    ELSE Out("NotImplementedError", F, J, D)

\* OJSInstance.dump_database(destination), file_format 'bz2'; dumped is
\* whether the dump program exits with 0.
dump_database(F, J, D, S, destination, dumped) ==
    IF destination \notin F.dirs
    THEN Out("FileNotFoundError", F, J, D)
    ELSE IF J.config.db.driver \notin DUMPERS
    THEN Out("NotImplementedError", F, J, D)
    ELSE IF ~dumped
    THEN Out("OSError", F, J, D)
    ELSE LET path == ArchivePath(destination, ".tar.bz2")
             dump == [name |-> J.config.db.name, data |-> D]
             written == IF S.debug THEN F
                        ELSE [F EXCEPT !.archives[path] = DumpArchive(dump)]
         IN Out("", written,
                [J EXCEPT !.backups = Put(@, BaseName(S.ojs_backup_db), path)],
                D)

-----------------------------------------------------------------------------
(* Updater.upgrade_journal_folder, stage by stage.  A stage maps a file    *)
(* system to [err, fs]; the file system of a failed stage is the one the   *)
(* exception left behind.                                                  *)

Step(err, F) == [err |-> err, fs |-> F]

\* Mutant of MoveToOld: a missing journal folder leaves something behind.
MoveToOldLeavesTrace(F) ==
    IF ~F.live.exists
    THEN Step("FileNotFoundError", [F EXCEPT !.parent_files = @ \cup {"journal"}])
    ELSE Step("", [F EXCEPT !.old = F.live, !.live = NoTree])

\* shutil.move(journal.base_folder, old_journal_folder): a rename, or a move
\* into old_journal_folder when that directory already exists.
MoveToOld(F) ==
    IF ~F.live.exists THEN Step("FileNotFoundError", F)
    ELSE IF ~F.old.exists
    THEN Step("", [F EXCEPT !.old = F.live, !.live = NoTree])
    ELSE IF F.old_inner.exists
    THEN Step("shutil.Error", F)
    ELSE Step("", [F EXCEPT !.old_inner = F.live, !.live = NoTree])

\* shutil.copytree(ojs_upgrade_folder, journal.base_folder)
CopyReference(F, source) ==
    IF F.live.exists THEN Step("FileExistsError", F)
    ELSE Step("", [F EXCEPT !.live = source])

\* The check of the new public folder (updater.py 134-141): the error it
\* raises, "" when the folder is absent or holds exactly index.html.
PublicFolderError(public) ==
    IF ~public.exists THEN ""
    ELSE IF Cardinality(public.files) > 1 THEN "ValueError: New public folder not empty."
    ELSE IF public.files = {} THEN "IndexError"
    ELSE IF public.files # {"index.html"} THEN "ValueError: New public folder not empty."
    ELSE ""

\* Remove the placeholder public folder and copy the old one in its place.
CarryPublic(F) ==
    IF PublicFolderError(F.live.public) # ""
    THEN Step(PublicFolderError(F.live.public), F)
    ELSE IF ~F.old.public.exists
    THEN Step("FileNotFoundError", [F EXCEPT !.live.public = NoDir])
    ELSE Step("", [F EXCEPT !.live.public = F.old.public])

\* Mutant of CarryConfig: the old config file replaces the new one, which
\* is not kept.
CarryConfigDropsNew(F) ==
    IF ~F.live.config.exists \/ ~F.old.config.exists
    THEN Step("FileNotFoundError", F)
    ELSE Step("", [F EXCEPT !.live.config = F.old.config])

\* Rename the new config file to <name><suffix_new>, copy the old one in.
CarryConfig(F) ==
    IF ~F.live.config.exists THEN Step("FileNotFoundError", F)
    ELSE IF ~F.old.config.exists
    THEN Step("FileNotFoundError",
              [F EXCEPT !.live.config_new = F.live.config, !.live.config = NoFile])
    ELSE Step("", [F EXCEPT !.live.config_new = F.live.config,
                            !.live.config = F.old.config])

\* Mutant of PluginPathList: only the entries under 'all' are taken.
PluginPathListAllOnly(custom_files) == custom_files.all

\* plugin_path_list (updater.py 165-174): the allowlist entries under 'all'
\* and under the journal's name, as a set.
PluginPathList(custom_files) == custom_files.all \cup custom_files.named

\* Mutant of MoveAside: the destination is removed, not renamed.
MoveAsideDiscards(tree, p) == Step("", [tree EXCEPT !.custom[p] = NoEntry])

\* shutil.move(dst, dst_bck) for one custom path: a rename, which replaces a
\* file, fails on a file in the way of a directory, and moves into a
\* directory that is already there.
MoveAside(tree, p) ==
    LET dst == tree.custom[p]
        bck == tree.custom_new[p]
    IN IF bck.kind = "dir"
       THEN Step("", [tree EXCEPT !.custom[p] = NoEntry])
       ELSE IF bck.kind = "file" /\ dst.kind = "dir"
       THEN Step("NotADirectoryError", tree)
       ELSE Step("", [tree EXCEPT !.custom_new[p] = dst, !.custom[p] = NoEntry])

\* Mutant of CarryCustomEntry: a missing source ends the loop with its
\* error.
CarryCustomEntryStrict(F, entry) ==
    LET p == PathOf(entry)
        src == F.old.custom[p]
    IN IF src.kind = "none" THEN Step("FileNotFoundError", F)
       ELSE Step("", [F EXCEPT !.live.custom[p] = Entry(src.kind, "old")])

\* The body of the loop over plugin_path_list for one entry (176-213).
CarryCustomEntry(F, entry) ==
    LET p == PathOf(entry)
        src == F.old.custom[p]
        moved == IF F.live.custom[p].kind # "none"
                 THEN MoveAside(F.live, p)
                 ELSE Step("", F.live)
    IN IF moved.err # "" THEN Step(moved.err, F)
       ELSE IF src.kind = "none"
       THEN Step("", [F EXCEPT !.live = moved.fs])   \* FileNotFoundError: warn
       ELSE Step("", [F EXCEPT !.live =
                        [moved.fs EXCEPT !.custom[p] = Entry(src.kind, "old")]])

RECURSIVE CarryCustom(_, _)
\* The loop over plugin_path_list.
CarryCustom(F, entries) ==
    IF entries = {} THEN Step("", F)
    ELSE LET e == CHOOSE x \in entries : TRUE
             one == CarryCustomEntry(F, e)
         IN IF one.err # "" THEN one ELSE CarryCustom(one.fs, entries \ {e})

\* The journal argument of a call that passes no instance.
None == [none |-> TRUE]

\* Updater.upgrade_journal_folder(journal, source): J is the journal's
\* handle or None, source the tree at the reference's base folder.
upgrade_journal_folder(F, J, source, S) ==
    IF ~source.exists \/ J = None THEN Step("FileNotFoundError", F) ELSE
    LET moved == MoveToOld(F)
        copied == IF moved.err # "" THEN moved ELSE CopyReference(moved.fs, source)
        public == IF copied.err # "" THEN copied ELSE CarryPublic(copied.fs)
        config == IF public.err # "" THEN public ELSE CarryConfig(public.fs)
    IN IF config.err # "" THEN config
       ELSE CarryCustom(config.fs, PluginPathList(S.custom_files))

-----------------------------------------------------------------------------
(* OJSInstance._rewind and OJSInstance.lock.                               *)

\* db_data: the path handed to the restore function.  It starts as /tmp/
\* and gets the first member's name appended once per extracted member.
TmpDir == [member |-> "", exists |-> TRUE, isdir |-> TRUE]
TmpDump(dump) ==
    [member |-> dump.name, exists |-> TRUE, isdir |-> FALSE, dump |-> dump]
TmpNothing == [member |-> "journal/journal", exists |-> FALSE, isdir |-> FALSE]

\* The extraction of the database backup (ojsinstance.py 227-235).
ExtractDatabase(F, db_backup) ==
    IF ~EndsWithBz2(db_backup) THEN [err |-> "", data |-> TmpDir, opened |-> FALSE]
    ELSE LET archive == F.archives[db_backup]
         IN IF archive.kind = "none"
            THEN [err |-> "FileNotFoundError", data |-> TmpDir, opened |-> FALSE]
            ELSE IF archive.kind = "dump"
            THEN [err |-> "", data |-> TmpDump(archive.dump), opened |-> TRUE]
            ELSE IF archive.kind = "tree"
            THEN [err |-> "", data |-> TmpNothing, opened |-> TRUE]
            ELSE [err |-> "", data |-> TmpDir, opened |-> TRUE]

\* The ways commons.mysql_restore can end: both mysql calls exit with 0,
\* the DROP/CREATE call fails, or the import call fails.
RestoreOutcomes == {"ok", "drop_failed", "import_failed"}

\* commons.mysql_restore(data, ...): the database it leaves.
mysql_restore(D, data, outcome) ==
    IF outcome = "drop_failed" THEN D
    ELSE IF outcome = "import_failed" \/ data.isdir THEN "empty"
    ELSE data.dump.data

\* The restore_func call as it appears in the trace.
RestoreCall(data, config) ==
    [ev |-> "restore_func", data |-> data, name |-> config.db.name,
     host |-> config.db.host, username |-> config.db.username,
     password |-> config.db.password]

\* "Restore database" (ojsinstance.py 226-256).
RewindDatabase(F, J, D, S, outcome) ==
    LET db_backup == J.backups[BaseName(S.ojs_backup_db)]
        got == ExtractDatabase(F, db_backup)
        staged == IF got.opened THEN [F EXCEPT !.tmp = F.archives[db_backup]] ELSE F
        extracted == IF got.opened
                     THEN <<[ev |-> "extract", archive |-> db_backup]>>
                     ELSE <<>>
    IN IF got.err # ""
       THEN [err |-> got.err, fs |-> F, db |-> D, events |-> <<>>]
       ELSE IF ~got.data.exists
       THEN [err |-> "", fs |-> staged, db |-> D, events |-> extracted]
       ELSE IF J.config.db.driver \notin DATABASE_IMPORT
       THEN [err |-> "NotImplementedError", fs |-> staged, db |-> D,
             events |-> extracted]
       ELSE [err |-> IF outcome = "ok" THEN "" ELSE "OSError",
             fs |-> staged,
             db |-> mysql_restore(D, got.data, outcome),
             events |-> Append(extracted, RestoreCall(got.data, J.config))]

\* Mutant of RewindFolder: the folder is removed, the archive not extracted.
RewindFolderRemovesOnly(F, J, S) ==
    [err |-> "",
     fs |-> IF F.live.exists THEN [F EXCEPT !.live = NoTree] ELSE F,
     events |-> IF F.live.exists THEN <<[ev |-> "rmtree"]>> ELSE <<>>]

\* "Restore journal folder" (ojsinstance.py 258-267).
RewindFolder(F, J, S) ==
    LET www_backup == J.backups[BaseName(S.ojs_backup_www)]
        removed == IF F.live.exists THEN [F EXCEPT !.live = NoTree] ELSE F
        rmtree == IF F.live.exists THEN <<[ev |-> "rmtree"]>> ELSE <<>>
        archive == F.archives[www_backup]
        extractall == Append(rmtree, [ev |-> "extractall", archive |-> www_backup])
    IN IF ~EndsWithBz2(www_backup)
       THEN [err |-> "", fs |-> removed, events |-> rmtree]
       ELSE IF archive.kind = "none"
       THEN [err |-> "FileNotFoundError", fs |-> removed, events |-> rmtree]
       ELSE IF archive.kind = "tree"
       THEN [err |-> "", fs |-> [removed EXCEPT !.live = archive.tree],
             events |-> extractall]
       ELSE IF archive.kind = "dump"
       THEN [err |-> "", events |-> extractall,
             fs |-> [removed EXCEPT !.parent_files = @ \cup {archive.dump.name}]]
       ELSE [err |-> "", fs |-> removed, events |-> extractall]

\* Mutant of RunsRewind: the rewind runs in debug mode too.
RunsRewindAlways(S) == TRUE

\* The except clause of lock(): whether the rewind is run.
RunsRewind(S) == ~S.debug

\* Mutant of HasBackups: the rewind goes on without recorded backups.
HasBackupsUnchecked(J) == TRUE

\* _rewind(): `if not self.backups` is false.
HasBackups(J) == DOMAIN J.backups # {}

\* Mutant of LockResult: the handler re-raises what the body raised.
LockResultReraises(error, step) ==
    [status |-> "raised", error |-> error, by |-> step]

\* What the with statement does with the exception of its body once the
\* generator of lock() has handled it and ended: the generator did not
\* re-raise, so contextlib reports the exception as handled.
LockResult(error, step) == [status |-> "returned"]

-----------------------------------------------------------------------------
(* Updater.update: target resolution and the early exit.                   *)

\* Mutant of ResolveTarget: an explicit target is ignored.
ResolveTargetAlwaysNewest(new_version, catalog) ==
    IF DOMAIN catalog = {}
    THEN [err |-> "ValueError: No local ojs versions found.",
          version |-> [release |-> NoVersion]]
    ELSE [err |-> "", version |-> [release |-> MaxKey(DOMAIN catalog)]]

\* Mutant of ResolveTarget: an unknown explicit target falls back to the
\* newest version.
ResolveTargetFallsBack(new_version, catalog) ==
    IF DOMAIN catalog = {}
    THEN [err |-> "ValueError: No local ojs versions found.",
          version |-> [release |-> NoVersion]]
    ELSE IF new_version = NoVersion \/ StripZeros(new_version) \notin DOMAIN catalog
    THEN [err |-> "", version |-> [release |-> MaxKey(DOMAIN catalog)]]
    ELSE [err |-> "", version |-> [release |-> new_version]]

\* Lines 65-70: the target version, or the error of the lookup.
ResolveTarget(new_version, catalog) ==
    IF new_version = NoVersion
    THEN IF DOMAIN catalog = {}
         THEN [err |-> "ValueError: No local ojs versions found.",
               version |-> Version(NoVersion)]
         ELSE [err |-> "", version |-> Version(MaxKey(DOMAIN catalog))]
    ELSE IF CmpKey(Version(new_version)) \notin DOMAIN catalog
    THEN [err |-> "ValueError: No such version", version |-> Version(new_version)]
    ELSE [err |-> "", version |-> Version(new_version)]

\* Mutant of EarlyExit: only a strictly newer journal is left alone.
EarlyExitStrict(J, target, S) ==
    TupleLess(CmpKey(target), CmpKey(J.version)) /\ S.force = "absent"

\* Mutant of EarlyExit: the force setting is not consulted.
EarlyExitIgnoresForce(J, target, S) == VersionGE(J.version, target)

\* Lines 72-80: update returns without doing anything.
EarlyExit(J, target, S) == VersionGE(J.version, target) /\ S.force = "absent"

\* self.versions.get(new_version)
NewInstance(catalog, target) == catalog[CmpKey(target)]

\* Mutant of NextStep: the migration runs before the installed flag is
\* toggled.
NextStepMigratesFirst(step) ==
    IF step = "archive_files" THEN "dump_database"
    ELSE IF step = "dump_database" THEN "upgrade_journal_folder"
    ELSE IF step = "upgrade_journal_folder" THEN "upgrade_journal_database"
    ELSE IF step = "upgrade_journal_database" THEN "toggle_off"
    ELSE IF step = "toggle_off" THEN "toggle_on"
    ELSE "unlock_website"

\* The statements of update from `journal.backup()` on (updater.py 85-99),
\* each named by the position before it; unlock_website ends the with block.
NextStep(step) ==
    IF step = "archive_files" THEN "dump_database"
    ELSE IF step = "dump_database" THEN "upgrade_journal_folder"
    ELSE IF step = "upgrade_journal_folder" THEN "toggle_off"
    ELSE IF step = "toggle_off" THEN "upgrade_journal_database"
    ELSE IF step = "upgrade_journal_database" THEN "toggle_on"
    ELSE "unlock_website"

-----------------------------------------------------------------------------
(* The state machine.                                                      *)

NoScope == [failed |-> FALSE]
NoResult == [status |-> "none"]
NoCall == [new_version |-> NoVersion]
Returned == [status |-> "returned"]
\* The operation raised `error`; `by` is the function that raised it.
Raised(error, by) == [status |-> "raised", error |-> error, by |-> by]

Snapshot == [fs |-> fs, journal |-> journal, db |-> db]

\* No invocation of ojs_update.main: the Updater and the OJSInstance are
\* used by another caller.
NoCli == [lock |-> 0]

Settled == <<settings, refs, versions>>

\* The operation ends; what it did stays visible until Return.
Finish(res) == pc' = "done" /\ result' = res

\* The body of the with statement raised: control goes to lock()'s except.
BodyRaises(error, step, F, J, D) ==
    /\ scope' = [failed |-> TRUE, error |-> error, step |-> step,
                 left |-> [fs |-> F, journal |-> J, db |-> D]]
    /\ pc' = "lock_except"
    /\ result' = result

\* Updater.update(journal, new_version) up to `journal.backup()`.
update(new_version) ==
    /\ pc = "idle"
    /\ calls' = calls + 1
    /\ op' = "update"
    /\ trace' = <<>>
    /\ scope' = NoScope
    /\ LET target == ResolveTarget(new_version, versions)
           given == [new_version |-> new_version, target |-> target.version,
                     pre |-> Snapshot]
       IN /\ call' = given
          /\ IF target.err # "" THEN Finish(Raised(target.err, "update"))
             ELSE IF EarlyExit(journal, target.version, settings)
             THEN Finish(Returned)
             ELSE IF ~NewInstance(versions, target.version).reference
             THEN Finish(Raised("ValueError: no reference", "update"))
             ELSE pc' = "archive_files" /\ result' = NoResult
    /\ UNCHANGED <<Settled, journal, fs, db>>

\* Updater.backup(journal) / ojs_update.backup: journal.backup() alone.
backup ==
    /\ pc = "idle"
    /\ calls' = calls + 1
    /\ op' = "backup"
    /\ trace' = <<>>
    /\ scope' = NoScope
    /\ call' = [new_version |-> NoVersion, pre |-> Snapshot]
    /\ pc' = "archive_files" /\ result' = NoResult
    /\ UNCHANGED <<Settled, journal, fs, db>>

\* A caller's `with journal.lock(): raise Exception`.
lock_body_raises ==
    /\ pc = "idle" /\ calls < MaxCalls
    /\ calls' = calls + 1
    /\ op' = "lock"
    /\ trace' = <<>>
    /\ call' = [new_version |-> NoVersion, pre |-> Snapshot]
    /\ BodyRaises("Exception", "body", fs, journal, db)
    /\ UNCHANGED <<Settled, cli, journal, fs, db>>

\* Mutant of BackupRaises: the backup is made inside `with journal.lock()`.
BackupRaisesInsideLock(error, by, F, J, D) == BodyRaises(error, by, F, J, D)

\* journal.backup() raised: update calls it before `with journal.lock()`
\* and ojs_update.backup without a lock, so the exception goes to the caller.
BackupRaises(error, by, F, J, D) == Finish(Raised(error, by)) /\ scope' = scope

\* backup(): self.archive_files(self.settings['ojs_backup_www'])
ArchiveFiles ==
    /\ pc = "archive_files"
    /\ LET out == archive_files(fs, journal, db, settings, settings.ojs_backup_www,
                                "bztar")
       IN /\ fs' = out.fs /\ journal' = out.journal
          /\ trace' = Append(trace, [ev |-> "archive_files",
                                     written |-> out.err = "" /\ ~settings.debug])
          /\ IF out.err # ""
             THEN BackupRaises(out.err, "archive_files", out.fs, out.journal, db)
             ELSE pc' = NextStep(pc) /\ result' = result /\ scope' = scope
    /\ UNCHANGED <<Settled, cli, db, op, call, calls>>

\* backup(): self.dump_database(self.settings['ojs_backup_db'])
DumpDatabase(dumped) ==
    /\ pc = "dump_database"
    /\ LET out == dump_database(fs, journal, db, settings,
                                settings.ojs_backup_db, dumped)
       IN /\ fs' = out.fs /\ journal' = out.journal
          /\ trace' = Append(trace, [ev |-> "dump_database",
                                     written |-> out.err = "" /\ ~settings.debug])
          /\ IF out.err # ""
             THEN BackupRaises(out.err, "dump_database", out.fs, out.journal, db)
             ELSE IF op = "backup" THEN Finish(Returned) /\ scope' = scope
             ELSE pc' = NextStep(pc) /\ result' = result /\ scope' = scope
    /\ UNCHANGED <<Settled, cli, db, op, call, calls>>

\* with journal.lock(): self.upgrade_journal_folder(journal, new_instance)
UpgradeJournalFolder ==
    /\ pc = "upgrade_journal_folder"
    /\ LET folder == NewInstance(versions, call.target).folder
           out == upgrade_journal_folder(fs, journal, refs[folder], settings)
       IN /\ fs' = out.fs
          /\ trace' = Append(trace, [ev |-> "upgrade_journal_folder",
                                     source |-> folder])
          /\ IF out.err # ""
             THEN BodyRaises(out.err, "upgrade_journal_folder", out.fs, journal, db)
             ELSE pc' = NextStep(pc) /\ scope' = scope /\ result' = result
    /\ UNCHANGED <<Settled, cli, journal, db, op, call, calls>>

\* journal.toggle_installed(), before and after the migration.
ToggleInstalled ==
    /\ pc \in {"toggle_off", "toggle_on"}
    /\ LET out == toggle_installed(fs, journal, db)
       IN /\ fs' = out.fs /\ journal' = out.journal
          /\ trace' = Append(trace, [ev |-> "toggle_installed",
                                     installed |-> is_installed(out.journal.config)])
          /\ IF out.err # ""
             THEN BodyRaises(out.err, pc, out.fs, out.journal, db)
             ELSE IF NextStep(pc) = "unlock_website"
             THEN Finish(Returned) /\ scope' = scope
             ELSE pc' = NextStep(pc) /\ scope' = scope /\ result' = result
    /\ UNCHANGED <<Settled, cli, db, op, call, calls>>

\* The ways `php tools/upgrade.php upgrade` can end, and the database it
\* leaves: migrated, untouched, or half migrated.
MigrationOutcomes == {"ok", "failed_early", "failed_midway"}

\* commons.run_php(script, args): subprocess.check_call raises
\* CalledProcessError for a non-zero exit, and run_php catches nothing.
run_php(outcome) == IF outcome = "ok" THEN "" ELSE "CalledProcessError"

\* self.upgrade_journal_database(journal): run_php, check_call.
UpgradeJournalDatabase(outcome) ==
    /\ pc = "upgrade_journal_database"
    /\ db' = IF outcome = "ok" THEN "migrated"
             ELSE IF outcome = "failed_midway" THEN "partial" ELSE db
    /\ trace' = Append(trace, [ev |-> "upgrade_journal_database",
                               installed |-> is_installed(journal.config)])
    /\ IF run_php(outcome) # ""
       THEN BodyRaises(run_php(outcome), "upgrade_journal_database",
                       fs, journal, db')
       ELSE pc' = NextStep(pc) /\ scope' = scope /\ result' = result
    /\ UNCHANGED <<Settled, cli, journal, fs, op, call, calls>>

\* lock(): `except Exception as error`, up to the lookups of _rewind.
LockExcept ==
    /\ pc = "lock_except"
    /\ IF ~RunsRewind(settings)
       THEN /\ Finish(LockResult(scope.error, scope.step))
            /\ trace' = Append(trace, [ev |-> "critical"])
       ELSE IF ~HasBackups(journal)
       THEN /\ Finish(LockResult(scope.error, scope.step))
            /\ trace' = Append(Append(trace, [ev |-> "critical"]),
                               [ev |-> "warning_no_backups"])
       ELSE IF \/ BaseName(settings.ojs_backup_db) \notin DOMAIN journal.backups
               \/ BaseName(settings.ojs_backup_www) \notin DOMAIN journal.backups
       THEN /\ Finish(Raised("KeyError", "_rewind"))
            /\ trace' = Append(trace, [ev |-> "critical"])
       ELSE /\ pc' = "rewind_database" /\ result' = result
            /\ trace' = Append(trace, [ev |-> "critical"])
    /\ UNCHANGED <<Settled, cli, journal, fs, db, op, call, scope, calls>>

\* _rewind(): restore the database.
RewindDatabaseStep(outcome) ==
    /\ pc = "rewind_database"
    /\ LET out == RewindDatabase(fs, journal, db, settings, outcome)
       IN /\ fs' = out.fs /\ db' = out.db
          /\ trace' = trace \o out.events
          /\ IF out.err # "" THEN Finish(Raised(out.err, "_rewind"))
             ELSE pc' = "rewind_folder" /\ result' = result
    /\ UNCHANGED <<Settled, cli, journal, op, call, scope, calls>>

\* _rewind(): restore the journal folder; then lock() ends.
RewindFolderStep ==
    /\ pc = "rewind_folder"
    /\ LET out == RewindFolder(fs, journal, settings)
       IN /\ fs' = out.fs
          /\ trace' = trace \o out.events
          /\ IF out.err # "" THEN Finish(Raised(out.err, "_rewind"))
             ELSE Finish(LockResult(scope.error, scope.step))
    /\ UNCHANGED <<Settled, cli, journal, db, op, call, scope, calls>>

\* The caller takes the result; the next operation may start.
Return ==
    /\ pc = "done"
    /\ pc' = "idle" /\ op' = "none" /\ call' = NoCall /\ trace' = <<>>
    /\ scope' = NoScope /\ result' = NoResult
    /\ UNCHANGED <<Settled, journal, fs, db, calls>>

-----------------------------------------------------------------------------
(* The initial states: a settings file, a folder of reference trees, a     *)
(* live journal, and the Updater and OJSInstance constructed from them.    *)

\* settings['locations']: the characteristic files of an OJS folder.
Locations == {"dbscripts/xml/version.xml", "config.inc.php"}

\* (folder / expected_file).exists()
LocationExists(folder, location) ==
    IF location = "config.inc.php" THEN folder.config.exists
    ELSE folder.release # NoVersion

\* Mutant of is_ojs: every folder counts as an OJS folder.
IsOjsAnyFolder(folder, expected_files) == TRUE

\* commons.is_ojs(folder, expected_files)
is_ojs(folder, expected_files) ==
    \A location \in expected_files : LocationExists(folder, location)

\* An entry of the version folder that is a file, not a directory.
PlainFile == [exists |-> TRUE, isdir |-> FALSE]

\* The version folder itself does not exist.
NoRoot == [exists |-> FALSE]

\* The orders in which glob('*') may list the entries of the version folder.
GlobOrders ==
    {o \in [1..Cardinality(RefFolders) -> RefFolders] :
        \A i, k \in DOMAIN o : i # k => o[i] # o[k]}

RECURSIVE ScanVersionFolder(_, _, _)
\* The loop of _read_version_folder over the entries still to visit:
\* versions[instance.version] = instance replaces an entry of that version.
ScanVersionFolder(trees, order, found) ==
    IF order = <<>> THEN found
    ELSE LET item == trees[Head(order)]
             key == CmpKey(Version(item.release))
             instance == [folder |-> Head(order), reference |-> TRUE]
         IN IF item.exists /\ item.isdir /\ is_ojs(item, Locations)
            THEN ScanVersionFolder(trees, Tail(order),
                    [k \in DOMAIN found \cup {key} |->
                        IF k = key THEN instance ELSE found[k]])
            ELSE ScanVersionFolder(trees, Tail(order), found)

\* An empty dict of versions.
NoVersions == [k \in {} |-> [folder |-> "", reference |-> TRUE]]

\* Updater._read_version_folder, the entries listed in the given order.
ReadVersionFolder(trees, order) == ScanVersionFolder(trees, order, NoVersions)

\* OJSInstance.__init__ for the live journal.
NewInstanceHandle(tree) ==
    [version |-> Version(tree.release),
     config |-> reload_config(tree.config),
     backups |-> NoBackups]

Placeholder == Dir({"index.html"})

\* What the public folder of a reference tree may hold.
PublicFolders ==
    {Placeholder, Dir({"index.html", "logo.png"}), Dir({"logo.png"}), Dir({}),
     NoDir}

\* The custom paths a reference tree ships itself: a file and a folder.
RefCustom ==
    [p \in CustomPaths |-> IF p = "theme.php" THEN Entry("file", "ref")
                            ELSE IF p = "pluginB" THEN Entry("dir", "ref")
                            ELSE NoEntry]

LiveCustoms ==
    {[p \in CustomPaths |-> IF p = "theme.php" THEN Entry("file", "old")
                            ELSE Entry("dir", "old")],
     [p \in CustomPaths |-> IF p = "pluginB" THEN Entry("dir", "old") ELSE NoEntry]}

NoCustomFiles == [all |-> {}, named |-> {}]

\* settings['custom_files']: the lists under 'all' and under the journal's name.
CustomFiles ==
    {NoCustomFiles,
     [all |-> {"theme.php", "pluginA/"}, named |-> {"pluginB"}],
     [all |-> {"pluginA", "pluginA/"}, named |-> {}],
     [all |-> {}, named |-> {"theme.php"}]}

\* The part of a start state the orchestration does not branch on; all but
\* one of its dimensions stay at the value of Plain.
Plain ==
    [present |-> RefFolders,
     lines |-> <<"; installed = On", "installed = On">>,
     driver |-> "mysqli",
     host |-> "localhost",
     dirs |-> BackupDirs,
     public |-> Placeholder,
     custom_files |-> NoCustomFiles,
     custom |-> CHOOSE c \in LiveCustoms : c["theme.php"].kind = "file"]

Details ==
    {[Plain EXCEPT !.present = x] : x \in {{"ojs_2_4_8", "ojs_3_3_0_0"}, {}}}
    \cup {[Plain EXCEPT !.lines = x] :
            x \in {<<"; installed = On", "installed = Off">>,
                   <<"Installed=ON", "; installed = On">>}}
    \cup {[Plain EXCEPT !.driver = "pgsql"], [Plain EXCEPT !.host = "\"localhost\""]}
    \cup {[Plain EXCEPT !.dirs = BackupDirs \ {x}] : x \in {"/backup/www", "/backup/db"}}
    \cup {[Plain EXCEPT !.public = x] : x \in PublicFolders}
    \cup {[Plain EXCEPT !.custom_files = x, !.custom = y] :
            x \in CustomFiles, y \in LiveCustoms}

LiveReleases == {<<2, 4, 8>>, <<3, 3, 0>>}

Init ==
    \E d \in Details, debug \in BOOLEAN, force \in {"absent", "true", "false"},
       db_folder \in BackupDirs, release \in LiveReleases, order \in GlobOrders :
        LET live == Tree(release, Dir({"site.css"}),
                         ConfigFile(d.lines, LiveDb(d.driver, d.host)), d.custom)
        IN /\ settings = [debug |-> debug, force |-> force,
                          ojs_backup_www |-> "/backup/www",
                          ojs_backup_db |-> db_folder,
                          custom_files |-> d.custom_files]
           /\ refs = [f \in RefFolders |->
                        IF f \in d.present THEN RefTree(f, d.public, RefCustom)
                        ELSE NoTree]
           /\ versions = ReadVersionFolder(refs, order)
           /\ journal = NewInstanceHandle(live)
           /\ fs = [live |-> live, old |-> NoTree, old_inner |-> NoTree,
                    archives |-> [p \in ArchivePaths |-> NoArchive],
                    dirs |-> d.dirs, tmp |-> NoArchive, parent_files |-> {}]
           /\ db = "original"
           /\ pc = "idle" /\ op = "none" /\ call = NoCall /\ trace = <<>>
           /\ scope = NoScope /\ result = NoResult /\ calls = 0
           /\ cli = NoCli

\* The operations as a caller other than ojs_update.main starts them.
CallUpdate(new_version) ==
    calls < MaxCalls /\ update(new_version) /\ UNCHANGED cli
CallBackup == calls < MaxCalls /\ backup /\ UNCHANGED cli
CallReturn == Return /\ UNCHANGED cli

Next ==
    \/ \E v \in Releases \cup {NoVersion} : CallUpdate(v)
    \/ CallBackup
    \/ lock_body_raises
    \/ ArchiveFiles
    \/ \E dumped \in BOOLEAN : DumpDatabase(dumped)
    \/ UpgradeJournalFolder
    \/ ToggleInstalled
    \/ \E outcome \in MigrationOutcomes : UpgradeJournalDatabase(outcome)
    \/ LockExcept
    \/ \E outcome \in RestoreOutcomes : RewindDatabaseStep(outcome)
    \/ RewindFolderStep
    \/ CallReturn

Spec == Init /\ [][Next]_vars

\* Two updates in a row with the same Updater and the same OJSInstance, in
\* which every external program succeeds.
RepeatUpdate(new_version) ==
    calls < MaxCalls + 1 /\ update(new_version) /\ UNCHANGED cli

RepeatNext ==
    \/ \E v \in Releases \cup {NoVersion} : RepeatUpdate(v)
    \/ ArchiveFiles
    \/ DumpDatabase(TRUE)
    \/ UpgradeJournalFolder
    \/ ToggleInstalled
    \/ UpgradeJournalDatabase("ok")
    \/ CallReturn

RepeatSpec == Init /\ [][RepeatNext]_vars

\* updater.versions[key] = OJSInstance(folder, settings, logger) for the
\* keys in replaced: the caller puts instances built with the default
\* reference=False into the catalog.
Registered(catalog, replaced) ==
    [k \in DOMAIN catalog |->
        IF k \in replaced THEN [catalog[k] EXCEPT !.reference = FALSE]
        ELSE catalog[k]]

\* The Updater used as a library: as Init for a plain installation, with
\* a catalog in which the caller has replaced any of the entries.
LibraryInit ==
    \E debug \in BOOLEAN, force \in {"absent", "true", "false"},
       release \in LiveReleases, order \in GlobOrders,
       replaced \in SUBSET {CmpKey(Version(RefRelease(f))) : f \in RefFolders} :
        LET live == Tree(release, Dir({"site.css"}),
                         ConfigFile(Plain.lines, LiveDb(Plain.driver, Plain.host)),
                         Plain.custom)
        IN /\ settings = [debug |-> debug, force |-> force,
                          ojs_backup_www |-> "/backup/www",
                          ojs_backup_db |-> "/backup/db",
                          custom_files |-> Plain.custom_files]
           /\ refs = [f \in RefFolders |-> RefTree(f, Plain.public, RefCustom)]
           /\ versions = Registered(ReadVersionFolder(refs, order), replaced)
           /\ journal = NewInstanceHandle(live)
           /\ fs = [live |-> live, old |-> NoTree, old_inner |-> NoTree,
                    archives |-> [p \in ArchivePaths |-> NoArchive],
                    dirs |-> Plain.dirs, tmp |-> NoArchive, parent_files |-> {}]
           /\ db = "original"
           /\ pc = "idle" /\ op = "none" /\ call = NoCall /\ trace = <<>>
           /\ scope = NoScope /\ result = NoResult /\ calls = 0
           /\ cli = NoCli

LibrarySpec == LibraryInit /\ [][Next]_vars

-----------------------------------------------------------------------------
(* Direct calls: the construction of the Updater, and the methods          *)
(* upgrade_journal_folder and toggle_installed called on their own, as the *)
(* tests of the repository and ojs_update call them.                       *)

\* Longest configuration file, in lines, and most toggle_installed calls in
\* a row.
MaxLines == 3
MaxToggles == 2

\* Most calls of iter_versions, or reads of one version file, in a row.
MaxReads == 2

\* Most child elements under the root of a version.xml.
MaxItems == 3

\* Lines that set the installed option, and lines that do not.
InstalledLines ==
    {"installed = On", "installed = Off", "Installed=ON", "installed = Once"}
OtherLines == {"; installed = On", "; comment"}

\* Configuration files with one installed option among comment lines.
ConfigTexts ==
    {t \in UNION {[1..n -> InstalledLines \cup OtherLines] : n \in 1..MaxLines} :
        Cardinality(OptionLines(t)) = 1}

\* What the version folder may hold under one name: a reference tree,
\* nothing, a file, a folder without config.inc.php, and a reference tree of
\* version 3.3.
LayoutItems(folder) ==
    LET tree == RefTree(folder, Placeholder, RefCustom)
    IN {tree, NoTree, PlainFile, [tree EXCEPT !.config = NoFile],
        [tree EXCEPT !.release = <<3, 3>>]}

Layouts ==
    {NoRoot} \cup
    {l \in [RefFolders -> UNION {LayoutItems(f) : f \in RefFolders}] :
        \A f \in RefFolders : l[f] \in LayoutItems(f)}

\* A start state of the direct calls in which everything is regular.
Regular ==
    [refs |-> [f \in RefFolders |-> RefTree(f, Placeholder, RefCustom)],
     lines |-> Plain.lines,
     custom_files |-> NoCustomFiles,
     custom |-> Plain.custom,
     driver |-> Plain.driver,
     debug |-> FALSE,
     live_exists |-> TRUE]

\* The start states: the layouts of the version folder, the configuration
\* files, and the journal folders with their allowlists.
Situations ==
    {[Regular EXCEPT !.refs = l] : l \in Layouts}
    \cup {[Regular EXCEPT !.lines = t] : t \in ConfigTexts}
    \cup {[Regular EXCEPT !.driver = "pgsql"], [Regular EXCEPT !.debug = TRUE]}
    \cup {[Regular EXCEPT
             !.refs = [f \in RefFolders |->
                         IF f = "ojs_3_3_0_0" THEN NoTree
                         ELSE RefTree(f, public, RefCustom)],
             !.custom_files = x, !.custom = y, !.live_exists = e] :
            public \in PublicFolders, x \in CustomFiles, y \in LiveCustoms,
            e \in BOOLEAN}

\* Before Updater(...): settings loaded, the journal's OJSInstance built;
\* the journal folder may have gone since.
CallsInit ==
    \E c \in Situations :
        LET live == Tree(<<2, 4, 8>>, Dir({"site.css"}),
                         ConfigFile(c.lines, LiveDb(c.driver, "localhost")),
                         c.custom)
        IN /\ settings = [debug |-> c.debug, force |-> "absent",
                          ojs_backup_www |-> "/backup/www",
                          ojs_backup_db |-> "/backup/db",
                          custom_files |-> c.custom_files]
           /\ refs = c.refs
           /\ versions = NoVersions
           /\ journal = NewInstanceHandle(live)
           /\ fs = [live |-> IF c.live_exists THEN live ELSE NoTree,
                    old |-> NoTree, old_inner |-> NoTree,
                    archives |-> [p \in ArchivePaths |-> NoArchive],
                    dirs |-> BackupDirs, tmp |-> NoArchive, parent_files |-> {}]
           /\ db = "original"
           /\ pc = "new" /\ op = "none" /\ call = NoCall /\ trace = <<>>
           /\ scope = NoScope /\ result = NoResult /\ calls = 0
           /\ cli = NoCli

\* Updater.__init__(ojs_version_folder, settings, logger)
NewUpdater(order) ==
    /\ pc = "new"
    /\ op' = "Updater"
    /\ IF refs = NoRoot
       THEN Finish(Raised("FileNotFoundError", "Updater")) /\ versions' = versions
       ELSE /\ versions' = ReadVersionFolder(refs, order)
            /\ pc' = "idle" /\ result' = NoResult
    /\ UNCHANGED <<settings, refs, journal, fs, db, call, trace, scope, calls,
                 cli>>

\* A reference the catalog may have handed out: a tree that was a valid
\* OJS folder when the catalog was read, and may have been removed since.
IsReference(tree) ==
    IF tree.exists THEN tree.isdir /\ is_ojs(tree, Locations) ELSE TRUE

\* updater.upgrade_journal_folder(journal, source) called on its own;
\* given says whether journal is an instance or None.
CallUpgradeJournalFolder(folder, given) ==
    /\ pc = "idle" /\ calls < MaxCalls
    /\ IsReference(refs[folder])
    /\ calls' = calls + 1
    /\ op' = "upgrade_journal_folder"
    /\ call' = [source |-> folder, given |-> given, pre |-> Snapshot]
    /\ trace' = <<[ev |-> "upgrade_journal_folder", source |-> folder]>>
    /\ LET out == upgrade_journal_folder(fs, IF given THEN journal ELSE None,
                                         refs[folder], settings)
       IN /\ fs' = out.fs
          /\ IF out.err # "" THEN Finish(Raised(out.err, "upgrade_journal_folder"))
             ELSE Finish(Returned)
    /\ UNCHANGED <<Settled, cli, journal, db, scope>>

\* journal.toggle_installed() called on its own, once or several times in
\* a row; the trace keeps what each call found.
CallToggleInstalled ==
    /\ \/ pc = "idle" /\ calls < MaxCalls
       \/ pc = "done" /\ op = "toggle_installed" /\ result = Returned
    /\ Len(trace) < MaxToggles
    /\ calls' = IF pc = "idle" THEN calls + 1 ELSE calls
    /\ op' = "toggle_installed"
    /\ call' = IF pc = "idle" THEN [new_version |-> NoVersion, pre |-> Snapshot]
               ELSE call
    /\ LET out == toggle_installed(fs, journal, db)
       IN /\ fs' = out.fs /\ journal' = out.journal
          /\ trace' = Append(trace,
                [ev |-> "toggle_installed",
                 before |-> IF fs.live.exists THEN fs.live.config.lines ELSE <<>>,
                 was |-> is_installed(journal.config),
                 installed |-> is_installed(out.journal.config)])
          /\ IF out.err # "" THEN Finish(Raised(out.err, "toggle_installed"))
             ELSE Finish(Returned)
    /\ UNCHANGED <<Settled, cli, db, scope>>

\* Mutant of SortedKeys: the keys in descending order.
RECURSIVE SortedKeysDescending(_)
SortedKeysDescending(keys) ==
    IF keys = {} THEN <<>>
    ELSE <<MaxKey(keys)>> \o SortedKeysDescending(keys \ {MaxKey(keys)})

\* sorted(keys): the version keys in ascending order.
RECURSIVE SortedKeys(_)
SortedKeys(keys) ==
    IF keys = {} THEN <<>>
    ELSE LET least == CHOOSE k \in keys : \A o \in keys : ~TupleLess(o, k)
         IN <<least>> \o SortedKeys(keys \ {least})

\* Updater.get_newest_version()
get_newest_version(catalog) ==
    IF DOMAIN catalog = {}
    THEN [err |-> "ValueError: No local ojs versions found.", key |-> NoVersion]
    ELSE [err |-> "", key |-> MaxKey(DOMAIN catalog)]

\* Updater.iter_versions(): the (key, value) pairs the generator yields
\* when it is run to its end.
iter_versions(catalog) ==
    LET keys == SortedKeys(DOMAIN catalog)
    IN [i \in 1..Len(keys) |-> <<keys[i], catalog[keys[i]]>>]

\* updater.get_newest_version() called on its own.
CallGetNewestVersion ==
    /\ pc = "idle" /\ calls < MaxCalls
    /\ calls' = calls + 1
    /\ op' = "get_newest_version"
    /\ call' = [new_version |-> NoVersion, pre |-> Snapshot]
    /\ LET out == get_newest_version(versions)
       IN IF out.err # "" THEN Finish(Raised(out.err, "get_newest_version"))
          ELSE Finish([status |-> "returned", value |-> out.key])
    /\ UNCHANGED <<Settled, cli, journal, fs, db, trace, scope>>

\* list(updater.iter_versions()), once or several times in a row; the trace
\* keeps what each traversal yielded.
CallIterVersions ==
    /\ \/ pc = "idle" /\ calls < MaxCalls
       \/ pc = "done" /\ op = "iter_versions"
    /\ Len(trace) < MaxReads
    /\ calls' = IF pc = "idle" THEN calls + 1 ELSE calls
    /\ op' = "iter_versions"
    /\ call' = IF pc = "idle" THEN [new_version |-> NoVersion, pre |-> Snapshot]
               ELSE call
    /\ trace' = Append(trace, [ev |-> "iter_versions",
                               yielded |-> iter_versions(versions)])
    /\ Finish(Returned)
    /\ UNCHANGED <<Settled, cli, journal, fs, db, scope>>

\* The child elements of the root of a version.xml: tag and text.
Tags == {"application", "release", "patch"}
Texts == {"ojs2", "3.3.0.0"}
Items == [tag : Tags, text : Texts]
Descriptors == UNION {[1..n -> Items] : n \in 0..MaxItems}

NoMapping == [t \in {} |-> ""]

\* Mutant of ReadItems: patch elements are read like the others.
RECURSIVE ReadItemsKeepsPatch(_, _, _)
ReadItemsKeepsPatch(items, i, mapping) ==
    IF i > Len(items) THEN [err |-> "", result |-> mapping]
    ELSE IF items[i].tag \in DOMAIN mapping
    THEN [err |-> "ValueError: Malformed version file", result |-> mapping]
    ELSE ReadItemsKeepsPatch(items, i + 1,
                             Put(mapping, items[i].tag, items[i].text))

\* The loop of read_ojs_version_file from the i-th child element on.
RECURSIVE ReadItems(_, _, _)
ReadItems(items, i, mapping) ==
    IF i > Len(items) THEN [err |-> "", result |-> mapping]
    ELSE IF items[i].tag = "patch" THEN ReadItems(items, i + 1, mapping)
    ELSE IF items[i].tag \in DOMAIN mapping
    THEN [err |-> "ValueError: Malformed version file", result |-> mapping]
    ELSE ReadItems(items, i + 1, Put(mapping, items[i].tag, items[i].text))

\* commons.read_ojs_version_file(path) for a file with these elements.
read_ojs_version_file(items) == ReadItems(items, 1, NoMapping)

\* read_ojs_version_file(path), once or several times on the same file; the
\* trace keeps how each read ended.
ReadOjsVersionFile ==
    /\ pc \in {"idle", "done"}
    /\ Len(trace) < MaxReads
    /\ op' = "read_ojs_version_file"
    /\ LET out == read_ojs_version_file(call.descriptor)
       IN /\ trace' = Append(trace, [ev |-> "read_ojs_version_file", out |-> out])
          /\ IF out.err # "" THEN Finish(Raised(out.err, "read_ojs_version_file"))
             ELSE Finish([status |-> "returned", value |-> out.result])
    /\ UNCHANGED <<Settled, cli, journal, fs, db, call, scope, calls>>

\* Destinations a caller may pass: the backup folders and a missing one.
Destinations == BackupDirs \cup {"does/not/exist"}

\* journal.archive_files(destination, file_format) called on its own.
CallArchiveFiles(destination, file_format) ==
    /\ pc = "idle" /\ calls < MaxCalls
    /\ calls' = calls + 1
    /\ op' = "archive_files"
    /\ call' = [new_version |-> NoVersion, destination |-> destination,
                file_format |-> file_format, pre |-> Snapshot]
    /\ LET out == archive_files(fs, journal, db, settings, destination,
                                file_format)
       IN /\ fs' = out.fs /\ journal' = out.journal
          /\ IF out.err # "" THEN Finish(Raised(out.err, "archive_files"))
             ELSE Finish(Returned)
    /\ UNCHANGED <<Settled, cli, db, trace, scope>>

\* journal.dump_database(destination) called on its own.
CallDumpDatabase(destination, dumped) ==
    /\ pc = "idle" /\ calls < MaxCalls
    /\ calls' = calls + 1
    /\ op' = "dump_database"
    /\ call' = [new_version |-> NoVersion, destination |-> destination,
                dumped |-> dumped, pre |-> Snapshot]
    /\ LET out == dump_database(fs, journal, db, settings, destination, dumped)
       IN /\ fs' = out.fs /\ journal' = out.journal
          /\ IF out.err # "" THEN Finish(Raised(out.err, "dump_database"))
             ELSE Finish(Returned)
    /\ UNCHANGED <<Settled, cli, db, trace, scope>>

CallsNext ==
    \/ \E order \in GlobOrders : NewUpdater(order)
    \/ \E folder \in RefFolders, given \in BOOLEAN :
          CallUpgradeJournalFolder(folder, given)
    \/ CallToggleInstalled
    \/ CallGetNewestVersion
    \/ CallIterVersions
    \/ \E destination \in Destinations, file_format \in Formats :
          CallArchiveFiles(destination, file_format)
    \/ \E destination \in Destinations, dumped \in BOOLEAN :
          CallDumpDatabase(destination, dumped)

CallsSpec == CallsInit /\ [][CallsNext]_vars

\* The reader of version files on its own: a version.xml with any of the
\* bounded contents, read by a process that does nothing else.
ReaderInit ==
    \E items \in Descriptors :
        LET live == Tree(<<2, 4, 8>>, Dir({"site.css"}),
                         ConfigFile(Regular.lines,
                                    LiveDb(Regular.driver, "localhost")),
                         Regular.custom)
        IN /\ settings = [debug |-> FALSE, force |-> "absent",
                          ojs_backup_www |-> "/backup/www",
                          ojs_backup_db |-> "/backup/db",
                          custom_files |-> Regular.custom_files]
           /\ refs = Regular.refs
           /\ versions = NoVersions
           /\ journal = NewInstanceHandle(live)
           /\ fs = [live |-> live, old |-> NoTree, old_inner |-> NoTree,
                    archives |-> [p \in ArchivePaths |-> NoArchive],
                    dirs |-> BackupDirs, tmp |-> NoArchive, parent_files |-> {}]
           /\ db = "original"
           /\ pc = "idle" /\ op = "none" /\ trace = <<>>
           /\ call = [new_version |-> NoVersion, descriptor |-> items]
           /\ scope = NoScope /\ result = NoResult /\ calls = 0
           /\ cli = NoCli

ReaderNext == ReadOjsVersionFile

ReaderSpec == ReaderInit /\ [][ReaderNext]_vars

-----------------------------------------------------------------------------
(* The rewind on its own: a caller has made a files backup in one of the   *)
(* formats, the database backup is recorded as written by dump_database or *)
(* assigned to journal.backups by the caller, as the tests do, and the     *)
(* body of `with journal.lock()` raises.                                   *)

\* What the archive recorded as the database backup may be: a dump, or a
\* tar file without members.
DatabaseArchives == {DumpArchive([name |-> "ojs", data |-> "original"]), EmptyArchive}

RewindInit ==
    \E file_format \in Formats, extension \in Extensions,
       archive \in DatabaseArchives, driver \in {"mysqli", "pgsql"},
       debug \in BOOLEAN :
        LET live == Tree(<<2, 4, 8>>, Dir({"site.css"}),
                         ConfigFile(Regular.lines, LiveDb(driver, "localhost")),
                         Regular.custom)
            S == [debug |-> FALSE, force |-> "absent",
                  ojs_backup_www |-> "/backup/www",
                  ojs_backup_db |-> "/backup/db",
                  custom_files |-> Regular.custom_files]
            F == [live |-> live, old |-> NoTree, old_inner |-> NoTree,
                  archives |-> [p \in ArchivePaths |-> NoArchive],
                  dirs |-> BackupDirs, tmp |-> NoArchive, parent_files |-> {}]
            made == archive_files(F, NewInstanceHandle(live), "original", S,
                                  "/backup/www", file_format)
            db_backup == ArchivePath("/backup/db", extension)
        IN /\ settings = [S EXCEPT !.debug = debug]
           /\ refs = Regular.refs
           /\ versions = NoVersions
           /\ journal = [made.journal EXCEPT
                           !.backups = Put(@, BaseName(S.ojs_backup_db), db_backup)]
           /\ fs = [made.fs EXCEPT !.archives[db_backup] = archive]
           /\ db = "changed"
           /\ pc = "idle" /\ op = "none" /\ call = NoCall /\ trace = <<>>
           /\ scope = NoScope /\ result = NoResult /\ calls = 0
           /\ cli = NoCli

RewindNext ==
    \/ lock_body_raises
    \/ LockExcept
    \/ \E outcome \in RestoreOutcomes : RewindDatabaseStep(outcome)
    \/ RewindFolderStep
    \/ CallReturn

RewindSpec == RewindInit /\ [][RewindNext]_vars

-----------------------------------------------------------------------------
(* The command line: two invocations of ojs_update.main that share the run *)
(* directory, and so the lock file, and work on the same journal.          *)

Procs == {1, 2}

\* settings.args.backup: what an invocation was asked to do.
CliModes == {"update", "backup"}

\* The variables of the Updater and of the OJSInstance.
CoreVars == <<settings, refs, versions, journal, fs, db, pc, op, call, trace,
              scope, result, calls>>

\* An invocation before `with ZCLock(...)`.
NewProcess(mode, permissive) ==
    [pc |-> "start", mode |-> mode, permissive |-> permissive,
     passed |-> <<>>, failed |-> "", saw |-> 0, invoked |-> FALSE,
     leaving |-> "", status |-> "running"]

\* Mutant of LockFile: the lock is granted whoever holds it.
LockFileShared(holder, p) == [err |-> "", holder |-> p]

\* zc.lockfile.LockFile(path), called by ZCLock.acquire: an exclusive,
\* non-blocking lock on the file; LockError when another process holds it.
LockFile(holder, p) ==
    IF holder = 0 THEN [err |-> "", holder |-> p]
    ELSE [err |-> "LockError", holder |-> holder]

\* Mutant of AfterStep: the journal folder is not checked.
AfterStepSkipsJournalCheck(mode, position) ==
    IF position = "enter"
    THEN IF mode = "update" THEN "new_updater" ELSE "check_permissions"
    ELSE IF position = "new_updater" THEN "check_permissions"
    ELSE IF position = "check_permissions" THEN "check_disk_usage"
    ELSE IF position = "check_disk_usage" THEN "new_journal"
    ELSE "core"

\* The statement of ojs_update.update or ojs_update.backup that follows a
\* statement which has passed.
AfterStep(mode, position) ==
    IF position = "enter"
    THEN IF mode = "update" THEN "new_updater" ELSE "check_permissions"
    ELSE IF position = "new_updater" THEN "check_permissions"
    ELSE IF position = "check_permissions" THEN "check_disk_usage"
    ELSE IF position = "check_disk_usage" THEN "new_journal"
    ELSE IF position = "new_journal" THEN "check_journal"
    ELSE "core"

\* check_permissions(locations, mode=...): the access asked for the journal
\* folder.
JournalAccessMode(mode) == IF mode = "update" THEN "W_OK" ELSE "R_OK"

\* The statement passed: on to the next one.
Passes(proc, name) ==
    [proc EXCEPT !.pc = AfterStep(proc.mode, proc.pc),
                 !.passed = Append(@, name)]

\* The statement ended the locked block with sys.exit(1) or an exception:
\* ZCLock.__exit__ runs next.
Leaves(proc, how) ==
    [proc EXCEPT !.pc = "exit", !.failed = proc.pc, !.leaving = how]

\* with ZCLock(settings['run_dir'], ...): __enter__, acquire.
Acquire(p) ==
    /\ cli.proc[p].pc = "start"
    /\ LET got == LockFile(cli.lock, p)
       IN cli' = [cli EXCEPT
                    !.lock = got.holder,
                    !.proc[p] =
                       IF got.err = ""
                       THEN [@ EXCEPT !.pc = "locked", !.saw = cli.lock]
                       ELSE [@ EXCEPT !.pc = "ended", !.saw = cli.lock,
                                      !.failed = "acquire",
                                      !.leaving = got.err, !.status = "exit1"]]
    /\ UNCHANGED CoreVars

\* if not settings.args.permissive: drop_privileges(...); root is whether
\* the process runs as root.
DropPrivileges(p, root) ==
    /\ cli.proc[p].pc = "locked"
    /\ LET proc == [cli.proc[p] EXCEPT !.pc = "enter"]
       IN cli' = [cli EXCEPT !.proc[p] =
                    IF proc.permissive
                    THEN [proc EXCEPT !.pc = AfterStep(proc.mode, "enter")]
                    ELSE IF ~root THEN Leaves([proc EXCEPT !.pc = "drop_privileges"],
                                              "SystemExit")
                    ELSE Passes(proc, "drop_privileges")]
    /\ UNCHANGED CoreVars

\* update(): updater = Updater(settings['ojs_version_folder'], ...)
CliNewUpdater(p, order) ==
    /\ cli.proc[p].pc = "new_updater"
    /\ IF refs = NoRoot
       THEN /\ cli' = [cli EXCEPT !.proc[p] = Leaves(@, "FileNotFoundError")]
            /\ versions' = versions
       ELSE /\ cli' = [cli EXCEPT !.proc[p] = Passes(@, "Updater")]
            /\ versions' = ReadVersionFolder(refs, order)
    /\ UNCHANGED <<settings, refs, journal, fs, db, pc, op, call, trace, scope,
                   result, calls>>

\* if not check_permissions(locations, logger=logger): sys.exit(1)
CheckPermissions(p, allowed) ==
    /\ cli.proc[p].pc = "check_permissions"
    /\ cli' = [cli EXCEPT !.proc[p] =
                 IF allowed THEN Passes(@, "check_permissions")
                 ELSE Leaves(@, "SystemExit")]
    /\ UNCHANGED CoreVars

\* if not check_disk_usage(locations, logger=logger): sys.exit(1)
CheckDiskUsage(p, enough) ==
    /\ cli.proc[p].pc = "check_disk_usage"
    /\ cli' = [cli EXCEPT !.proc[p] =
                 IF enough THEN Passes(@, "check_disk_usage")
                 ELSE Leaves(@, "SystemExit")]
    /\ UNCHANGED CoreVars

\* journal = OJSInstance(settings.args.folder, settings=settings, ...)
NewJournal(p) ==
    /\ cli.proc[p].pc = "new_journal"
    /\ IF (IF fs.live.exists THEN is_ojs(fs.live, Locations) ELSE FALSE)
       THEN /\ cli' = [cli EXCEPT !.proc[p] = Passes(@, "OJSInstance")]
            /\ journal' = NewInstanceHandle(fs.live)
       ELSE /\ cli' = [cli EXCEPT !.proc[p] = Leaves(@, "ValueError")]
            /\ journal' = journal
    /\ UNCHANGED <<settings, refs, versions, fs, db, pc, op, call, trace, scope,
                   result, calls>>

\* if not check_permissions((journal.base_folder,), mode=...): sys.exit(1)
CheckJournalFolder(p, allowed) ==
    /\ cli.proc[p].pc = "check_journal"
    /\ cli' = [cli EXCEPT !.proc[p] =
                 IF allowed
                 THEN Passes(@, JournalAccessMode(cli.proc[p].mode))
                 ELSE Leaves(@, "SystemExit")]
    /\ UNCHANGED CoreVars

\* updater.update(journal) or journal.backup() is called.
StartCore(p) ==
    /\ cli.proc[p].pc = "core" /\ calls < MaxCalls
    /\ IF cli.proc[p].mode = "update" THEN update(NoVersion) ELSE backup
    /\ cli' = [cli EXCEPT !.proc[p] = [@ EXCEPT !.pc = "running",
                                                !.invoked = TRUE]]

\* The call returns or raises: the locked block is left.
EndCore(p) ==
    /\ cli.proc[p].pc = "running"
    /\ Return
    /\ cli' = [cli EXCEPT !.proc[p] =
                 IF result.status = "raised" THEN Leaves(@, result.error)
                 ELSE [@ EXCEPT !.pc = "exit", !.leaving = "normal"]]

\* ZCLock.__exit__, release: the lock file is closed, and the process ends
\* with status 0 or, after sys.exit(1) or an exception, with status 1.
Release(p) ==
    /\ cli.proc[p].pc = "exit"
    /\ cli' = [cli EXCEPT
                 !.lock = 0,
                 !.proc[p] = [@ EXCEPT !.pc = "ended",
                                !.status = IF cli.proc[p].leaving = "normal"
                                           THEN "exit0"
                                           ELSE "exit1"]]
    /\ UNCHANGED CoreVars

\* Two invocations about to start; the journal is a regular one, the
\* version folder is regular or missing.  journal stands for the
\* OJSInstance the running invocation builds in NewJournal.
CliInit ==
    \E modes \in [Procs -> CliModes], permissive \in [Procs -> BOOLEAN],
       root \in {Regular.refs, NoRoot} :
        LET live == Tree(<<2, 4, 8>>, Dir({"site.css"}),
                         ConfigFile(Regular.lines,
                                    LiveDb(Regular.driver, "localhost")),
                         Regular.custom)
        IN /\ settings = [debug |-> FALSE, force |-> "absent",
                          ojs_backup_www |-> "/backup/www",
                          ojs_backup_db |-> "/backup/db",
                          custom_files |-> Regular.custom_files]
           /\ refs = root
           /\ versions = NoVersions
           /\ journal = NewInstanceHandle(live)
           /\ fs = [live |-> live, old |-> NoTree, old_inner |-> NoTree,
                    archives |-> [p \in ArchivePaths |-> NoArchive],
                    dirs |-> BackupDirs, tmp |-> NoArchive, parent_files |-> {}]
           /\ db = "original"
           /\ pc = "idle" /\ op = "none" /\ call = NoCall /\ trace = <<>>
           /\ scope = NoScope /\ result = NoResult /\ calls = 0
           /\ cli = [lock |-> 0,
                     proc |-> [p \in Procs |-> NewProcess(modes[p], permissive[p])]]

CliNext ==
    \/ \E p \in Procs : Acquire(p)
    \/ \E p \in Procs, root \in BOOLEAN : DropPrivileges(p, root)
    \/ \E p \in Procs, order \in GlobOrders : CliNewUpdater(p, order)
    \/ \E p \in Procs, allowed \in BOOLEAN : CheckPermissions(p, allowed)
    \/ \E p \in Procs, enough \in BOOLEAN : CheckDiskUsage(p, enough)
    \/ \E p \in Procs : NewJournal(p)
    \/ \E p \in Procs, allowed \in BOOLEAN : CheckJournalFolder(p, allowed)
    \/ \E p \in Procs : StartCore(p)
    \/ ArchiveFiles
    \/ \E dumped \in BOOLEAN : DumpDatabase(dumped)
    \/ UpgradeJournalFolder
    \/ ToggleInstalled
    \/ \E outcome \in MigrationOutcomes : UpgradeJournalDatabase(outcome)
    \/ LockExcept
    \/ \E outcome \in RestoreOutcomes : RewindDatabaseStep(outcome)
    \/ RewindFolderStep
    \/ \E p \in Procs : EndCore(p)
    \/ \E p \in Procs : Release(p)

CliSpec == CliInit /\ [][CliNext]_vars

-----------------------------------------------------------------------------
(* Properties.                                                             *)

Events == {trace[i].ev : i \in 1..Len(trace)}

RewindEvents == {"extract", "restore_func", "rmtree", "extractall"}

\* The update call resolved its target to an entry of the catalog.
Resolved == op = "update" /\ CmpKey(call.target) \in DOMAIN versions

\* The positions of the trace that belong to the body of update: those
\* before lock()'s handler logs the failure.
BodyPositions ==
    {i \in 1..Len(trace) : \A k \in 1..i : trace[k].ev # "critical"}

UpdateSteps ==
    <<"archive_files", "dump_database", "upgrade_journal_folder",
      "toggle_installed", "upgrade_journal_database", "toggle_installed">>

\* The position of update before its i-th step.
UpdateStepAt(i) ==
    IF i = 4 THEN "toggle_off" ELSE IF i = 6 THEN "toggle_on" ELSE UpdateSteps[i]

C2_NoNeedNoEffects ==
    (Resolved /\ VersionGE(journal.version, call.target) /\ settings.force = "absent")
        => /\ pc = "done" /\ result = Returned
           /\ trace = <<>>
           /\ fs = call.pre.fs
           /\ journal = call.pre.journal
           /\ db = call.pre.db

C2_Witness ==
    /\ pc = "done" /\ Resolved /\ settings.force = "absent"
    /\ CmpKey(journal.version) = CmpKey(call.target)
    /\ call.new_version = <<3, 3, 0, 0>>
    /\ trace = <<>> /\ result = Returned

\* C3: the steps of an update that goes past the early exit are started in
\* the order files backup, database backup, file replacement, toggle,
\* migration, toggle, each only after the one before it has returned; an
\* update that returns without a failure has run all of them.
C3_StepOrder ==
    op = "update"
        => /\ \A i \in BodyPositions : i <= Len(UpdateSteps) /\ trace[i].ev = UpdateSteps[i]
           /\ (pc = "done" /\ result = Returned /\ ~scope.failed /\ trace # <<>>)
                => [i \in 1..Len(trace) |-> trace[i].ev] = UpdateSteps

C3_Witness ==
    /\ pc = "done" /\ op = "update" /\ result = Returned /\ ~scope.failed
    /\ [i \in 1..Len(trace) |-> trace[i].ev] = UpdateSteps

\* Backups of both kinds are recorded, under two keys.
BothRecorded ==
    /\ BaseName(settings.ojs_backup_www) # BaseName(settings.ojs_backup_db)
    /\ DOMAIN journal.backups =
          {BaseName(settings.ojs_backup_www), BaseName(settings.ojs_backup_db)}

FilesArchive == fs.archives[journal.backups[BaseName(settings.ojs_backup_www)]]
DatabaseArchive == fs.archives[journal.backups[BaseName(settings.ojs_backup_db)]]

\* The restore function was called with the dump extracted from the
\* database archive and the configured name, host, username and password.
RestoreCalled ==
    \E i \in 1..Len(trace) :
        /\ trace[i] = [ev |-> "restore_func",
                       data |-> TmpDump(DatabaseArchive.dump),
                       name |-> "ojs", host |-> "localhost",
                       username |-> "ojs", password |-> "ojspwd"]
        /\ \A k \in 1..Len(trace) :
              trace[k].ev \in {"rmtree", "extractall"} => i < k

\* The live folder was removed, the files archive extracted, and the live
\* folder is the tree of the files backup.
FolderRestored ==
    /\ \E i \in 1..Len(trace) :
          /\ trace[i] = [ev |-> "extractall",
                         archive |-> journal.backups[BaseName(settings.ojs_backup_www)]]
          /\ scope.left.fs.live.exists => i > 1 /\ trace[i - 1].ev = "rmtree"
    /\ FilesArchive.kind = "tree" /\ fs.live = FilesArchive.tree

TargetFolder == NewInstance(versions, call.target).folder

\* C5: with the force setting, an update towards a target that is not above
\* the journal's version does not take the early exit: the backup is
\* started, the file replacement that follows it copies the reference tree
\* of the requested target, and an update in which no step fails has run
\* backup, file replacement and migration.
C5_ForcedUpdateRuns ==
    (Resolved /\ VersionGE(journal.version, call.target) /\ settings.force = "true")
        => /\ pc = "done" => trace # <<>> /\ trace[1].ev = "archive_files"
           /\ pc # "done" => scope.failed \/ pc = UpdateStepAt(Len(trace) + 1)
           /\ \A i \in BodyPositions :
                 trace[i].ev = "upgrade_journal_folder" => trace[i].source = TargetFolder
           /\ (pc = "done" /\ result = Returned /\ ~scope.failed)
                 => {"archive_files", "dump_database", "upgrade_journal_folder",
                     "upgrade_journal_database"} \subseteq Events

C5_Witness ==
    /\ pc = "done" /\ Resolved /\ settings.force = "true"
    /\ TupleLess(CmpKey(call.target), CmpKey(journal.version))
    /\ result = Returned /\ ~scope.failed
    /\ trace[3] = [ev |-> "upgrade_journal_folder", source |-> "ojs_2_4_8"]
    /\ "upgrade_journal_database" \in Events
    /\ fs.live.release = <<2, 4, 8>>

\* C6: without an explicit target update resolves the target to the
\* greatest version of the catalog; with an explicit target of the catalog
\* it resolves to that version; the file replacement copies the reference
\* tree the catalog holds for the resolved version.
C6_TargetResolution ==
    op = "update"
        => /\ (call.new_version = NoVersion /\ DOMAIN versions # {})
                => /\ CmpKey(call.target) \in DOMAIN versions
                   /\ \A k \in DOMAIN versions : ~TupleLess(CmpKey(call.target), k)
           /\ (call.new_version # NoVersion
                    /\ StripZeros(call.new_version) \in DOMAIN versions)
                => call.target.release = call.new_version
           /\ \A i \in BodyPositions :
                 trace[i].ev = "upgrade_journal_folder"
                    => /\ StripZeros(RefRelease(trace[i].source)) = CmpKey(call.target)
                       /\ versions[CmpKey(call.target)].folder = trace[i].source
           /\ pc = "toggle_off" => fs.live.release = RefRelease(TargetFolder)

C6_Witness ==
    /\ pc = "done" /\ op = "update" /\ call.new_version = NoVersion
    /\ call.target.release = <<3, 3, 0, 1>>
    /\ DOMAIN versions = {<<2, 4, 8>>, <<3, 3>>, <<3, 3, 0, 1>>}
    /\ result = Returned /\ ~scope.failed
    /\ trace[3] = [ev |-> "upgrade_journal_folder", source |-> "ojs_3_3_0_1"]
    /\ fs.live.release = <<3, 3, 0, 1>>

\* C7: update with an explicit target that is no key of the catalog fails
\* with the unknown-version error before any backup, file replacement,
\* toggle or migration: nothing is started and nothing has changed.
C7_UnknownTargetFailsFirst ==
    (op = "update" /\ call.new_version # NoVersion
        /\ StripZeros(call.new_version) \notin DOMAIN versions)
        => /\ pc = "done"
           /\ result = Raised("ValueError: No such version", "update")
           /\ trace = <<>>
           /\ fs = call.pre.fs /\ journal = call.pre.journal /\ db = call.pre.db

C7_Witness ==
    /\ pc = "done" /\ op = "update" /\ call.new_version = <<1, 2, 3, 4>>
    /\ DOMAIN versions # {}
    /\ result = Raised("ValueError: No such version", "update")
    /\ trace = <<>>

\* C8: in debug mode a failure inside the protected scope runs no rewind:
\* no archive is extracted, the restore function is not called, the live
\* folder is not removed, and file system, database and instance stay as
\* the failure left them.
C8_DebugNeverRewinds ==
    (scope.failed /\ settings.debug)
        => /\ pc \in {"lock_except", "done"}
           /\ Events \cap RewindEvents = {}
           /\ fs = scope.left.fs /\ db = scope.left.db
           /\ journal = scope.left.journal
           /\ pc = "done" => result.status # "raised"

C8_Witness ==
    /\ pc = "done" /\ op = "update" /\ scope.failed /\ settings.debug
    /\ scope.step = "upgrade_journal_database"
    /\ fs.live.release = RefRelease(TargetFolder)
    /\ db = "partial"

\* C9: a rewind of an instance without recorded backups only logs the
\* warning: no archive is extracted, the restore function is not called,
\* no folder is removed, and nothing has changed.
C9_RewindWithoutBackups ==
    (scope.failed /\ ~settings.debug /\ journal.backups = NoBackups)
        => /\ pc \in {"lock_except", "done"}
           /\ Events \cap RewindEvents = {}
           /\ fs = scope.left.fs /\ db = scope.left.db
           /\ pc = "done"
                => /\ trace[Len(trace)].ev = "warning_no_backups"
                   /\ result = Returned

C9_Witness ==
    /\ pc = "done" /\ op = "lock" /\ scope.failed /\ ~settings.debug
    /\ journal.backups = NoBackups
    /\ trace[Len(trace)].ev = "warning_no_backups"
    /\ fs = call.pre.fs

\* The public folder of the reference tree an update copies.
NewPublic == refs[TargetFolder].public

\* C10 as stated: upgrade_journal_folder fails with the non-empty error
\* whenever the public folder of the copied tree holds anything but exactly
\* index.html - no entry at all included - and the original tree is then
\* still there under the old-tree name.
C10_NonEmptyPublicFolderFails ==
    (Resolved /\ "upgrade_journal_folder" \in Events
        /\ NewPublic.exists /\ NewPublic.files # {"index.html"})
        => /\ scope.failed /\ scope.step = "upgrade_journal_folder"
           /\ scope.error = "ValueError: New public folder not empty."
           /\ scope.left.fs.old = call.pre.fs.live

-----------------------------------------------------------------------------
(* Properties of the direct calls.                                         *)

\* upgrade_journal_folder was called on its own and has ended.
FolderCall == op = "upgrade_journal_folder" /\ pc = "done"

\* ... and has returned.
FolderUpgraded == FolderCall /\ result = Returned

\* The tree at the base folder of the reference passed as source.
Source == refs[call.source]

\* The journal's tree before the call: the old tree.
OldTree == call.pre.fs.live

\* The paths the allowlist names under 'all' or under the journal's name.
Listed ==
    {PathOf(e) : e \in settings.custom_files.all \cup settings.custom_files.named}

\* C11: after a successful upgrade_journal_folder the live path holds the
\* reference tree with the target's version, its public folder is the old
\* tree's (no index.html placeholder), its configuration file is the old
\* tree's, the reference's configuration file is kept under the suffixed
\* name, and the old tree exists under the old-tree name.
C11_FolderUpgraded ==
    FolderUpgraded
        => /\ fs.live.exists /\ fs.live.release = Source.release
           /\ fs.live.public = OldTree.public
           /\ "index.html" \notin fs.live.public.files
           /\ fs.live.config = OldTree.config
           /\ fs.live.config_new = Source.config
           /\ fs.old = OldTree

C11_Witness ==
    /\ FolderUpgraded /\ call.source = "ojs_3_3_0_1"
    /\ fs.live.release = <<3, 3, 0, 1>> /\ fs.old.release = <<2, 4, 8>>
    /\ fs.live.public = Dir({"site.css"})
    /\ fs.live.config.db = LiveDb("mysqli", "localhost")
    /\ fs.live.config_new.db = RefDb

\* C12: after upgrade_journal_folder the custom paths carried from the old
\* tree are exactly the paths listed under 'all' or under the journal's
\* name that exist in the old tree; a path listed under neither and not
\* shipped by the reference is absent from the final tree.
C12_CarriesExactlyListed ==
    FolderUpgraded
        => /\ {p \in CustomPaths : /\ fs.live.custom[p].kind # "none"
                                   /\ fs.live.custom[p].origin = "old"}
                = {p \in Listed : OldTree.custom[p].kind # "none"}
           /\ \A p \in CustomPaths \ Listed :
                 Source.custom[p].kind = "none" => fs.live.custom[p] = NoEntry

C12_Witness ==
    /\ FolderUpgraded
    /\ settings.custom_files = [all |-> {}, named |-> {"theme.php"}]
    /\ fs.live.custom["theme.php"] = Entry("file", "old")
    /\ OldTree.custom["pluginA"].kind = "dir"
    /\ fs.live.custom["pluginA"] = NoEntry

\* C13: a listed path whose destination exists in the new tree is not
\* overwritten: the destination is found under the suffixed name with the
\* reference's content, and the path itself holds the old tree's item.
C13_DestinationMovedAside ==
    FolderUpgraded
        => \A p \in Listed :
              Source.custom[p].kind # "none"
                 => /\ fs.live.custom_new[p] = Source.custom[p]
                    /\ OldTree.custom[p].kind # "none"
                          => fs.live.custom[p] = Entry(OldTree.custom[p].kind, "old")

C13_Witness ==
    /\ FolderUpgraded
    /\ {"theme.php", "pluginB"} \subseteq Listed
    /\ fs.live.custom_new["theme.php"] = Entry("file", "ref")
    /\ fs.live.custom["theme.php"] = Entry("file", "old")
    /\ fs.live.custom_new["pluginB"] = Entry("dir", "ref")
    /\ fs.live.custom["pluginB"] = Entry("dir", "old")

\* C14: a listed path without a source in the old tree does not make
\* upgrade_journal_folder fail, and the other listed paths are carried.
C14_MissingSourceSkipped ==
    (FolderCall /\ call.given /\ Source.exists /\ OldTree.exists
        /\ Source.public \in {Placeholder, NoDir}
        /\ \E p \in Listed : OldTree.custom[p].kind = "none")
        => /\ result = Returned
           /\ \A q \in Listed :
                 OldTree.custom[q].kind # "none"
                    => fs.live.custom[q] = Entry(OldTree.custom[q].kind, "old")

C14_Witness ==
    /\ FolderUpgraded
    /\ Listed = CustomPaths
    /\ OldTree.custom["theme.php"].kind = "none"
    /\ OldTree.custom["pluginA"].kind = "none"
    /\ fs.live.custom["pluginB"] = Entry("dir", "old")

\* C15: upgrade_journal_folder with a reference whose folder is missing,
\* without a journal, or with a journal whose folder is missing fails with
\* FileNotFoundError, the file system as it was before the call.
C15_NotFoundBeforeAnyEffect ==
    (FolderCall /\ (~Source.exists \/ ~call.given \/ ~OldTree.exists))
        => /\ result = Raised("FileNotFoundError", "upgrade_journal_folder")
           /\ fs = call.pre.fs

C15_Witness ==
    /\ FolderCall /\ Source.exists /\ call.given /\ ~OldTree.exists
    /\ result = Raised("FileNotFoundError", "upgrade_journal_folder")
    /\ ~fs.old.exists

\* The content of the configuration file after the n-th toggle_installed
\* of the trace.
LinesAfter(n) ==
    IF n < Len(trace) THEN trace[n + 1].before ELSE fs.live.config.lines

\* toggle_installed was called on its own and every call returned.
Toggled == op = "toggle_installed" /\ result = Returned

\* C16 as stated: toggle_installed flips the lines that set installed to
\* On or Off (in any case), leaves every other line as it was, and inverts
\* is_installed().
C16_ToggleFlipsOnlyOnOff ==
    Toggled
        => \A n \in 1..Len(trace) :
              LET before == trace[n].before
                  after == LinesAfter(n)
              IN /\ Len(after) = Len(before)
                 /\ \A i \in 1..Len(before) :
                       IF Lower(InstalledValue(before[i])) = "on"
                       THEN Lower(InstalledValue(after[i])) = "off"
                       ELSE IF Lower(InstalledValue(before[i])) = "off"
                       THEN Lower(InstalledValue(after[i])) = "on"
                       ELSE after[i] = before[i]
                 /\ trace[n].installed = ~trace[n].was

\* C17 as stated: two toggle_installed calls in a row give back the
\* original file on every line but the installed line, and the original
\* is_installed().
C17_ToggleTwiceRestores ==
    (Toggled /\ Len(trace) >= 2)
        => LET n == Len(trace)
               original == trace[n - 1].before
               final == fs.live.config.lines
           IN /\ Len(final) = Len(original)
              /\ \A i \in 1..Len(original) :
                    InstalledValue(original[i]) = "" => final[i] = original[i]
              /\ trace[n].installed = trace[n - 1].was

\* C18 as stated: in every update the installed flag is Off when the
\* migration tool is started and On when update has returned after all its
\* steps, whatever the flag was at the start.
C18_OffDuringMigrationOnAfter ==
    op = "update"
        => /\ \A i \in BodyPositions :
                 trace[i].ev = "upgrade_journal_database" => ~trace[i].installed
           /\ (pc = "done" /\ result = Returned /\ ~scope.failed /\ trace # <<>>)
                 => is_installed(reload_config(fs.live.config))

\* The entries of the version folder that are folders with all the
\* characteristic files.
ValidFolders ==
    {f \in RefFolders : /\ refs[f].exists /\ refs[f].isdir
                        /\ refs[f].config.exists /\ refs[f].release # NoVersion}

\* C19 as stated: the construction of the Updater fails when two valid
\* sub-trees of the version folder carry the same version.
C19_DuplicateVersionFails ==
    (pc # "new" /\ refs # NoRoot
        /\ \E f, g \in ValidFolders :
              f # g /\ StripZeros(refs[f].release) = StripZeros(refs[g].release))
        => result = Raised("ValueError", "Updater")

\* C20: the construction of the Updater fails when the version folder does
\* not exist; otherwise it succeeds, the keys of the catalog are the
\* versions of the sub-folders that hold all characteristic files, each key
\* stands for such a folder, and other entries are skipped.
C20_CatalogOfValidFolders ==
    /\ refs = NoRoot
          => /\ pc \in {"new", "done"} /\ versions = NoVersions
             /\ pc = "done" => result = Raised("FileNotFoundError", "Updater")
    /\ (refs # NoRoot /\ pc # "new")
          => /\ op = "Updater" => pc = "idle" /\ result = NoResult
             /\ DOMAIN versions = {StripZeros(refs[f].release) : f \in ValidFolders}
             /\ \A k \in DOMAIN versions :
                   /\ versions[k].folder \in ValidFolders
                   /\ StripZeros(refs[versions[k].folder].release) = k

C20_Witness ==
    /\ pc = "idle" /\ op = "Updater"
    /\ refs["ojs_2_4_8"] = PlainFile
    /\ refs["ojs_3_3_0_0"] =
          [RefTree("ojs_3_3_0_0", Placeholder, RefCustom) EXCEPT !.config = NoFile]
    /\ ValidFolders = {"ojs_3_3_0_1"}
    /\ DOMAIN versions = {<<3, 3, 0, 1>>}

-----------------------------------------------------------------------------
(* Properties of the catalog queries and of the version file reader.       *)

\* C21: get_newest_version returns the greatest key of the catalog, and
\* fails with 'No local ojs versions found.' when the catalog is empty;
\* every traversal of iter_versions yields each entry of the catalog once,
\* with its key, in ascending order of the keys.
C21_NewestAndAscending ==
    /\ (op = "get_newest_version" /\ pc = "done")
          => IF DOMAIN versions = {}
             THEN result = Raised("ValueError: No local ojs versions found.",
                                  "get_newest_version")
             ELSE /\ result.status = "returned"
                  /\ result.value \in DOMAIN versions
                  /\ \A k \in DOMAIN versions : ~TupleLess(result.value, k)
    /\ op = "iter_versions"
          => \A n \in 1..Len(trace) :
                LET y == trace[n].yielded
                IN /\ Len(y) = Cardinality(DOMAIN versions)
                   /\ {y[i][1] : i \in 1..Len(y)} = DOMAIN versions
                   /\ \A i \in 1..Len(y) : y[i][2] = versions[y[i][1]]
                   /\ \A i, j \in 1..Len(y) : i < j => TupleLess(y[i][1], y[j][1])

C21_Witness ==
    /\ op = "iter_versions" /\ Len(trace) = MaxReads
    /\ Len(trace[1].yielded) = 3
    /\ trace[MaxReads].yielded[1][1] = <<2, 4, 8>>
    /\ trace[MaxReads].yielded[3][1] = <<3, 3, 0, 1>>

NotPatch(item) == item.tag # "patch"

\* C22: read_ojs_version_file raises 'Malformed version file' when a tag
\* other than patch occurs twice; otherwise it returns the text of every
\* tag other than patch, however many patch elements there are; reading
\* the same file again ends the same way.
C22_VersionFileRead ==
    op = "read_ojs_version_file"
        => LET plain == SelectSeq(call.descriptor, NotPatch)
               twice == \E i, j \in 1..Len(plain) :
                           i # j /\ plain[i].tag = plain[j].tag
           IN \A n \in 1..Len(trace) :
                 /\ trace[n].out = trace[1].out
                 /\ IF twice
                    THEN /\ trace[n].out.err = "ValueError: Malformed version file"
                         /\ result.status = "raised"
                    ELSE /\ trace[n].out.err = ""
                         /\ DOMAIN trace[n].out.result =
                               {plain[i].tag : i \in 1..Len(plain)}
                         /\ \A i \in 1..Len(plain) :
                               trace[n].out.result[plain[i].tag] = plain[i].text
                         /\ result = [status |-> "returned",
                                      value |-> trace[n].out.result]

C22_Witness ==
    /\ op = "read_ojs_version_file" /\ Len(trace) = MaxReads
    /\ call.descriptor = <<[tag |-> "patch", text |-> "ojs2"],
                           [tag |-> "release", text |-> "3.3.0.0"],
                           [tag |-> "patch", text |-> "ojs2"]>>
    /\ result = [status |-> "returned",
                 value |-> [t \in {"release"} |-> "3.3.0.0"]]

-----------------------------------------------------------------------------
(* Properties of the backup functions.                                     *)

\* C23 as stated: when dump_database returns in debug mode, no archive has
\* been written and Instance.backups is as it was before the call.
C23_DryRunRecordsNoDump ==
    (op = "dump_database" /\ settings.debug /\ result = Returned)
        => /\ fs = call.pre.fs
           /\ journal.backups = call.pre.journal.backups

\* C24 as stated: dump_database for a driver without a dump function fails
\* with NotImplementedError, whatever the destination, and changes nothing.
C24_UnregisteredDriverFails ==
    (op = "dump_database" /\ pc = "done"
        /\ call.pre.journal.config.db.driver \notin DUMPERS)
        => /\ result = Raised("NotImplementedError", "dump_database")
           /\ fs = call.pre.fs /\ journal = call.pre.journal /\ db = call.pre.db

\* C24, amended: dump_database for a driver without a dump function fails
\* and changes nothing, whether or not the dump program would succeed; the
\* error is NotImplementedError when the destination exists, and
\* FileNotFoundError when it does not.
C24_UnregisteredDriverFailsAfterDestination ==
    (op = "dump_database" /\ pc = "done"
        /\ call.pre.journal.config.db.driver \notin DUMPERS)
        => /\ result =
                 Raised(IF call.destination \in call.pre.fs.dirs
                        THEN "NotImplementedError" ELSE "FileNotFoundError",
                        "dump_database")
           /\ fs = call.pre.fs /\ journal = call.pre.journal /\ db = call.pre.db

C24_Witness ==
    /\ op = "dump_database" /\ pc = "done"
    /\ journal.config.db.driver = "pgsql"
    /\ call.destination = "/backup/db" /\ ~call.dumped
    /\ result = Raised("NotImplementedError", "dump_database")

\* C25: archive_files and dump_database fail with FileNotFoundError when
\* the destination does not exist, whatever the driver and the dump program
\* would do, and leave the file system and Instance.backups as they were.
C25_MissingDestinationFails ==
    (op \in {"archive_files", "dump_database"} /\ pc = "done"
        /\ call.destination \notin call.pre.fs.dirs)
        => /\ result = Raised("FileNotFoundError", op)
           /\ fs = call.pre.fs /\ journal = call.pre.journal /\ db = call.pre.db

C25_Witness ==
    /\ op = "archive_files" /\ pc = "done"
    /\ call.destination = "does/not/exist"
    /\ result = Raised("FileNotFoundError", "archive_files")
    /\ journal.backups = NoBackups

\* C26 as stated: when backup() has returned, Instance.backups holds two
\* separate entries, the files archive and the database archive, whatever
\* the two backup directories are.
C26_TwoEntriesAfterBackup ==
    (op = "backup" /\ pc = "done" /\ result = Returned)
        => \E files, database \in DOMAIN journal.backups :
              /\ files # database
              /\ journal.backups[files] =
                    ArchivePath(settings.ojs_backup_www, ".tar.bz2")
              /\ journal.backups[database] =
                    ArchivePath(settings.ojs_backup_db, ".tar.bz2")

\* C27 as stated: no failure of an external program leaves the function
\* that started it as a raw CalledProcessError, neither into the body of
\* the lock nor to the caller of the operation.
C27_SubprocessFailureWrapped ==
    /\ scope.failed => scope.error # "CalledProcessError"
    /\ result.status = "raised" => result.error # "CalledProcessError"

-----------------------------------------------------------------------------
(* Properties of the guards of update and of the command line.             *)

IsCheck(name) ==
    name \in {"check_permissions", "check_disk_usage", "W_OK", "R_OK"}

\* C29: an invocation calls Updater.update or OJSInstance.backup only after
\* the permission check of the locations, the disk-space check and the
\* permission check of the journal folder (W_OK for update, R_OK for
\* backup) have passed, in this order; an invocation one of whose checks
\* fails leaves with sys.exit(1), ends with status 1 and never calls them;
\* and no update or backup runs but the one an invocation has called.
C29_ChecksPrecedeCore ==
    /\ \A p \in Procs :
          LET proc == cli.proc[p]
          IN /\ proc.invoked
                   => SelectSeq(proc.passed, IsCheck) =
                         <<"check_permissions", "check_disk_usage",
                           IF proc.mode = "update" THEN "W_OK" ELSE "R_OK">>
             /\ proc.failed \in {"check_permissions", "check_disk_usage",
                                 "check_journal"}
                   => /\ ~proc.invoked /\ proc.leaving = "SystemExit"
                      /\ proc.pc \in {"exit", "ended"}
                      /\ proc.pc = "ended" => proc.status = "exit1"
    /\ op # "none"
          => \E p \in Procs : /\ cli.proc[p].pc = "running"
                              /\ cli.proc[p].invoked /\ cli.proc[p].mode = op

C29_Witness ==
    /\ cli.proc[1].mode = "update" /\ cli.proc[1].invoked
    /\ cli.proc[1].status = "exit0"
    /\ cli.proc[1].passed = <<"drop_privileges", "Updater", "check_permissions",
                              "check_disk_usage", "OJSInstance", "W_OK">>
    /\ cli.proc[2].mode = "backup" /\ cli.proc[2].failed = "check_journal"
    /\ cli.proc[2].status = "exit1" /\ ~cli.proc[2].invoked

\* An invocation between the acquisition of the lock and its release.
Inside(p) == cli.proc[p].pc \notin {"start", "ended"}

\* C30: at most one invocation is between acquisition and release, and it
\* is the one that holds the lock; the lock is held by nobody else, so it
\* is free as soon as its holder has left the block, however it left; an
\* acquisition fails exactly when the other invocation holds the lock, and
\* an invocation whose acquisition failed has dropped no privileges, passed
\* no statement of update or backup and ended.
C30_OneInvocationInside ==
    /\ \A p, q \in Procs : (Inside(p) /\ Inside(q)) => p = q
    /\ \A p \in Procs : Inside(p) => cli.lock = p
    /\ cli.lock # 0 => Inside(cli.lock)
    /\ \A p \in Procs :
          LET proc == cli.proc[p]
          IN /\ proc.pc # "start" => (proc.saw # 0 <=> proc.failed = "acquire")
             /\ proc.failed = "acquire"
                   => /\ proc.pc = "ended" /\ proc.passed = <<>>
                      /\ ~proc.invoked /\ proc.leaving = "LockError"

C30_Witness ==
    /\ cli.proc[1].pc = "running" /\ cli.proc[1].mode = "update"
    /\ pc = "upgrade_journal_database"
    /\ cli.lock = 1
    /\ cli.proc[2].failed = "acquire" /\ cli.proc[2].saw = 1

-----------------------------------------------------------------------------
(* Properties of the rewind.                                               *)

\* C31 as stated: when a failure in non-debug mode has been rewound with
\* both backups recorded, the live folder has been removed and extracted
\* again from the files backup, whatever became of the database part.
C31_FolderRestoredDespiteDatabase ==
    (pc = "done" /\ scope.failed /\ ~settings.debug /\ BothRecorded)
        => FolderRestored

\* C32 as stated: the rewind calls the restore function only with a dump
\* file it has extracted from the database archive.
C32_RestoreOnlyExtractedDump ==
    \A i \in 1..Len(trace) :
        trace[i].ev = "restore_func"
            => /\ ~trace[i].data.isdir
               /\ \E k \in 1..(i - 1) : trace[k].ev = "extract"

\* C33: an update that has started its backup and ended without starting
\* the file replacement has ended with the error of archive_files or
\* dump_database: that error reached the caller, lock()'s handler and the
\* rewind did not run, nothing but the two backup functions was called,
\* and the live folder, the old-tree name, the configuration file and the
\* database are as before the call.
C33_BackupFailurePropagates ==
    (op = "update" /\ pc = "done" /\ trace # <<>>
        /\ "upgrade_journal_folder" \notin Events)
        => /\ result.status = "raised"
           /\ result.by \in {"archive_files", "dump_database"}
           /\ ~scope.failed
           /\ Events \subseteq {"archive_files", "dump_database"}
           /\ fs.live = call.pre.fs.live /\ fs.old = call.pre.fs.old
           /\ journal.config = call.pre.journal.config
           /\ db = call.pre.db

C33_Witness ==
    /\ op = "update" /\ pc = "done" /\ ~settings.debug
    /\ Len(trace) = 2 /\ trace[1].written /\ trace[2].ev = "dump_database"
    /\ result = Raised("OSError", "dump_database")
    /\ fs.live = call.pre.fs.live

\* C34 as stated: an update without force, called with the handle of a
\* journal that an earlier update of this handle has brought to the same
\* target, does nothing.
C34_SecondUpdateNoOp ==
    (op = "update" /\ calls = MaxCalls + 1 /\ Resolved
        /\ settings.force = "absent" /\ call.pre.db = "migrated"
        /\ CmpKey(Version(call.pre.fs.live.release)) = CmpKey(call.target))
        => pc = "done" /\ result = Returned /\ trace = <<>>

\* C35 as stated: once update has started the file replacement, a files
\* archive holding the live folder as it was before the call and a
\* database archive holding the database as it was before the call are
\* on disk, in debug mode too.
C35_ArchivesWrittenBeforeReplacement ==
    (op = "update" /\ "upgrade_journal_folder" \in Events)
        => /\ \E a \in DOMAIN fs.archives :
                /\ fs.archives[a].kind = "tree"
                /\ fs.archives[a].tree = call.pre.fs.live
           /\ \E a \in DOMAIN fs.archives :
                /\ fs.archives[a].kind = "dump"
                /\ fs.archives[a].dump.data = call.pre.db

\* C36 as stated: when a rewind that found both backups recorded has
\* ended and has removed the live folder, it has extracted the files
\* backup and the live folder exists, whatever the format of the files
\* backup made by archive_files.
C36_RewindLeavesLiveFolder ==
    (pc = "done" /\ scope.failed /\ BothRecorded /\ "rmtree" \in Events)
        => "extractall" \in Events /\ fs.live.exists

\* C37 as stated: after a failed update whose rewind has restored the
\* live folder, the configuration held by the handle is the one read
\* from the restored configuration file, and is_installed() answers as
\* before the call.
C37_ConfigMatchesRestoredFile ==
    (op = "update" /\ pc = "done" /\ scope.failed /\ FolderRestored)
        => /\ journal.config = reload_config(fs.live.config)
           /\ is_installed(journal.config)
                 = is_installed(call.pre.journal.config)

\* C38 as stated: after upgrade_journal_folder, a listed path without a
\* source in the old tree that the reference ships is in the new tree
\* under its own name, and nothing is found under its suffixed name.
C38_MissingSourceLeavesDestination ==
    FolderUpgraded
        => \A p \in Listed :
              (OldTree.custom[p].kind = "none" /\ Source.custom[p].kind # "none")
                 => /\ fs.live.custom[p] = Source.custom[p]
                    /\ fs.live.custom_new[p] = NoEntry

\* C39 as stated: update of a journal whose version is at least the
\* resolved target, with a force setting that is present and false, does
\* nothing: no step is started and the call returns.
C39_FalseForceNoOp ==
    (Resolved /\ VersionGE(journal.version, call.target)
        /\ settings.force = "false")
        => pc = "done" /\ result = Returned /\ trace = <<>>

=============================================================================
